---------------------------- MODULE Spec2Model ----------------------------
(***************************************************************************)
(* A model of the EVM plugin's swap pipeline and registries:               *)
(*   - NetworkRegistry and TokenRegistry (chain-scoped lookup tables),     *)
(*   - EVMProvider (per-chain provider cache),                             *)
(*   - getTokenDecimals / getQuote / prepareSwapTransaction / executeSwap. *)
(*                                                                         *)
(* An asynchronous function is a process whose position is pc; it yields   *)
(* where the code awaits a remote operation (a contract read, a receipt    *)
(* wait).  The steps between two remote operations run as one action: the  *)
(* awaits in between resolve from memory.  Registry and provider           *)
(* operations of other callers may run whenever a call is suspended.       *)
(*                                                                         *)
(* NetworkAdapter / TokenAdapter in swapUtils.ts are the names the tests   *)
(* give the two registries (adapters/index); they are modelled as the      *)
(* NetworkRegistry / TokenRegistry singletons.  encodeFunctionData is      *)
(* modelled structurally: the call data is the pair (functionName, args).  *)
(***************************************************************************)
EXTENDS Integers, Sequences, FiniteSets, TLC

\* ------------------------------------------------------------------ bounds

\* decimals() answers range over 0..MaxDecimals
MaxDecimals == 1
\* Date.now() ranges over 999..999 + MaxClockStep milliseconds
MaxClockStep == 1
\* registerTokens is called with at most MaxBatch tokens
MaxBatch == 2
\* the number of components that ask the registries for their instance
MaxCallers == 2

\* ------------------------------------------------------- program constants

SLIPPAGE_BPS == 50
\* waitForTransactionReceipt({confirmations: 2})
CONFIRMATIONS == 2
\* Math.floor(Date.now() / 1000) + 1200
DEADLINE_SECONDS == 1200

\* ----------------------------------------------------------------- domains

Chains == {1, 8453}
\* the chain the swap pipeline is exercised on
SwapChains == {1}

\* addresses as written by callers; ToLower is String.prototype.toLowerCase
InputTokens == {"0xAA", "0xbb"}
OutputTokens == {"0xaA", "0xcc"}
NoAddress == "undefined"

ToLower(s) ==
    CASE s = "0xAA" -> "0xaa"
      [] s = "0xaA" -> "0xaa"
      [] OTHER -> s

Undefined == [tag |-> "undefined"]

\* NetworkMetadata values registered in the model (name, rpcUrl left out:
\* no modelled operation reads them)
NativeCurrencies ==
    { [symbol |-> "ETH", decimals |-> 18, address |-> a] : a \in {"0xaa", NoAddress} }

NetworkMetadatas ==
    { [chainId |-> c, enabled |-> e, nativeCurrency |-> n] :
        c \in Chains, e \in BOOLEAN, n \in NativeCurrencies }

\* ProtocolConfig values; "v1" stands for any version tag other than v2, v3
ProtocolConfigs ==
    { [version |-> "v2", routerAddress |-> "0xR1", quoterAddress |-> NoAddress, defaultFeeBps |-> 30],
      [version |-> "v3", routerAddress |-> "0xR1", quoterAddress |-> "0xQ1", defaultFeeBps |-> 30],
      [version |-> "v3", routerAddress |-> "0xR2", quoterAddress |-> "0xQ2", defaultFeeBps |-> 5],
      [version |-> "v1", routerAddress |-> "0xR2", quoterAddress |-> NoAddress, defaultFeeBps |-> 5] }

\* amount strings: a decimal string is its digits and the number of digits
\* after the point; "abc" is not a number
Amounts ==
    { [text |-> "1.5", valid |-> TRUE, digits |-> 15, scale |-> 1],
      [text |-> "abc", valid |-> FALSE, digits |-> 0, scale |-> 0] }

\* token symbols as written by callers; ToUpper is String.prototype.toUpperCase
Symbols == {"usdc", "USDC", "dai"}

ToUpper(s) ==
    CASE s = "usdc" -> "USDC"
      [] s = "dai" -> "DAI"
      [] OTHER -> s

TokenAddresses == {"0xA0b8", "0x6B17"}

\* TokenData payloads (name left out: no modelled operation reads it)
TokenDatas ==
    { [chainId |-> 1, symbol |-> s, address |-> a, decimals |-> 6] :
        s \in Symbols, a \in TokenAddresses }
    \cup { [chainId |-> 8453, symbol |-> s, address |-> "0xA0b8", decimals |-> 6] :
        s \in {"usdc", "dai"} }

\* the tokens bulk registrations are made of
BatchTokens ==
    { [chainId |-> 1, symbol |-> "USDC", address |-> "0xA0b8", decimals |-> 6],
      [chainId |-> 1, symbol |-> "usdc", address |-> "0x6B17", decimals |-> 6],
      [chainId |-> 8453, symbol |-> "dai", address |-> "0xA0b8", decimals |-> 6] }

Hashes == {"0xh1", "0xh2"}
Wallets == {"0xW1"}

\* answers of the remote collaborators
ReadFailed == [ok |-> FALSE, error |-> "ContractReadError"]
DecimalsAnswers == { [ok |-> TRUE, value |-> d] : d \in 0..MaxDecimals } \cup {ReadFailed}
\* a quoter answer is (amountOut, sqrtPriceX96After, ...), a router answer is
\* amounts[]: both are sequences whose first two elements are modelled
QuoteAnswers ==
    { [ok |-> TRUE, value |-> v] :
        v \in { <<1000000, 201>>, <<201, 1000000>>, <<1, 0>> } }
    \cup {ReadFailed}
ReceiptStatuses == {"success", "reverted", "failed"}
WaitFailed == [ok |-> FALSE, error |-> "WaitForTransactionReceiptTimeoutError"]
WaitRejected == [ok |-> FALSE, error |-> "TransactionReceiptNotFoundError"]
ReceiptAnswers == { [ok |-> TRUE, status |-> s] : s \in ReceiptStatuses } \cup {WaitFailed, WaitRejected}
NowValues == { 999 + k : k \in 0..MaxClockStep }

\* ------------------------------------------------------------------- state

VARIABLES
    networks,     \* NetworkRegistry.networks : chainId -> NetworkMetadata | Undefined
    protocols,    \* NetworkRegistry.protocols : chainId -> ProtocolConfig | Undefined
    netRet,       \* what the last NetworkRegistry / EVMProvider operation returned
    instances,    \* EVMProvider.instances : chainId -> provider | Undefined
    tokens,       \* TokenRegistry.tokens : chainId -> Map (a sequence of entries)
    addressMap,   \* TokenRegistry.addressMap : the keys it holds
    tokRet,       \* what the last TokenRegistry operation returned
    lastReg,      \* history: (chainId, key) -> the payload of the last
                  \* registerToken for the key not followed by its removal, and
                  \* whether that call replaced another payload
    pc,           \* position of the swap-pipeline call
    op,           \* the exported function that was called
    args,         \* its arguments
    locals,       \* its local variables, and those of the getQuote it calls
    reads,        \* remote operations issued by the call, in order
    result,       \* what the call returned or threw
    netInstance,  \* NetworkRegistry.instance : 0 (unset) or the object it holds
    tokInstance,  \* TokenRegistry.instance : 0 (unset) or the object it holds
    netObjects,   \* the NetworkRegistry objects constructed: the networks of each
    tokObjects,   \* the TokenRegistry objects constructed: the tokens of each
    held,         \* component -> the instances getInstance() returned to it
    registered,   \* history: the payloads the registration calls were made with
    pf,           \* the portfolio read in progress: position, locals, answers
    val,          \* the last validate call of the swap action: message, result
    act,          \* the handler call of the swap action in progress
    served,       \* history: the request and the quote of the last finished
                  \* prepareSwapTransaction call that returned
    fan,          \* the fan-out of parallel reads in progress: its branches,
                  \* their requests, the state of the Promise.all
    wal,          \* the WalletProvider: currentChainId, the wallet client of
                  \* each chain configuration, the calls in progress
    book,         \* the order book: the file, the takeOrder call in progress,
                  \* and (history) the orders added and not removed since
    xfer          \* the handler call of the transfer action in progress

regVars == <<networks, protocols, instances>>
tokVars == <<tokens, addressMap, tokRet, lastReg>>
callVars == <<pc, op, args, locals, reads, result>>
instVars == <<netInstance, tokInstance, netObjects, tokObjects, held>>
\* the state the swap pipeline and the registry operations leave alone
lastVars == <<fan, wal, book, xfer>>
laterVars == <<served, val, act, lastVars>>
restVars == <<instVars, registered, pf, laterVars>>
vars == <<networks, protocols, netRet, instances, tokens, addressMap, tokRet,
          lastReg, pc, op, args, locals, reads, result, restVars>>


\* --------------------------------------------------------- NetworkRegistry

\* registerNetwork(metadata, protocolConfig?): the protocol entry is written
\* only when a protocolConfig is passed
RegisterNetwork(metadata, protocolConfig) ==
    /\ networks' = [networks EXCEPT ![metadata.chainId] = metadata]
    /\ protocols' = IF protocolConfig # Undefined
                    THEN [protocols EXCEPT ![metadata.chainId] = protocolConfig]
                    ELSE protocols
    /\ UNCHANGED instances

getNetwork(chainId) == networks[chainId]

getProtocolConfig(chainId) == protocols[chainId]

\* a faulty variant: an unknown chain gets an entry that holds the flag only
SetNetworkEnabledCreating(chainId, enabled) ==
    /\ networks' = IF networks[chainId] # Undefined
                   THEN [networks EXCEPT ![chainId].enabled = enabled]
                   ELSE [networks EXCEPT ![chainId] = [enabled |-> enabled]]
    /\ UNCHANGED <<protocols, instances>>

\* setNetworkEnabled(chainId, enabled): the registry it leaves
SetNetworkEnabled(chainId, enabled) ==
    /\ networks' = IF networks[chainId] # Undefined
                   THEN [networks EXCEPT ![chainId].enabled = enabled]
                   ELSE networks
    /\ UNCHANGED <<protocols, instances>>

\* setNetworkEnabled(chainId, enabled): the boolean it returns
SetNetworkEnabledResult(chainId) == networks[chainId] # Undefined

\* -------------------------------------------------------------- EVMProvider

\* init(chainId): throws for an unknown or disabled network, else creates
\* the clients
ProviderInit(chainId) ==
    IF getNetwork(chainId) = Undefined THEN "Network not found for chain ID"
    ELSE IF ~getNetwork(chainId).enabled THEN "Network is currently disabled"
    ELSE "ok"

\* new EVMProvider(chainId): the constructor runs init and drops its
\* outcome; publicClient is set only when init ran through
NewProvider(chainId) ==
    [chainId |-> chainId, publicClient |-> ProviderInit(chainId) = "ok"]

\* EVMProvider.instances after getProvider(chainId): the new instance is
\* stored before init is awaited
InstancesAfterGet(insts, chainId) ==
    IF insts[chainId] = Undefined
    THEN [insts EXCEPT ![chainId] = NewProvider(chainId)]
    ELSE insts

\* what getProvider(chainId) resolves or rejects with
GetProviderResult(insts, chainId) ==
    IF insts[chainId] = Undefined /\ ProviderInit(chainId) # "ok"
    THEN [ok |-> FALSE, error |-> ProviderInit(chainId)]
    ELSE [ok |-> TRUE, provider |-> InstancesAfterGet(insts, chainId)[chainId]]

\* a caller other than the swap call asks for a provider
GetProvider(chainId) ==
    /\ instances' = InstancesAfterGet(instances, chainId)
    /\ UNCHANGED <<networks, protocols>>

ClearProvider(chainId) ==
    /\ instances' = [instances EXCEPT ![chainId] = Undefined]
    /\ UNCHANGED <<networks, protocols>>

\* ------------------------------------------------------------ pure helpers

RECURSIVE Pow10(_)
Pow10(n) == IF n = 0 THEN 1 ELSE 10 * Pow10(n - 1)

\* viem parseUnits(value, decimals) for a non-negative decimal string: the
\* value scaled by 10^decimals, surplus fraction digits rounded half up
ParseUnits(amount, decimals) ==
    IF decimals >= amount.scale
    THEN amount.digits * Pow10(decimals - amount.scale)
    ELSE (amount.digits + 5 * Pow10(amount.scale - decimals - 1))
            \div Pow10(amount.scale - decimals)

\* a * m / d on BigInt operands a, m, d >= 0 (truncating division), computed
\* without a product above the 32-bit range: a = q*d + r gives
\* a*m/d = q*m + r*m/d
BigMulDiv(a, m, d) == (a \div d) * m + ((a % d) * m) \div d

\* a faulty variant: the quotient is rounded up
AmountOutMinRoundedUp(amountOut) ==
    BigMulDiv(amountOut, 10000 - SLIPPAGE_BPS, 10000)
        + (IF ((amountOut % 10000) * (10000 - SLIPPAGE_BPS)) % 10000 # 0 THEN 1 ELSE 0)

\* amountOutMin = quote.amountOut * BigInt(10000 - SLIPPAGE_BPS) / BigInt(10000)
AmountOutMin(amountOut) == BigMulDiv(amountOut, 10000 - SLIPPAGE_BPS, 10000)

\* calculatePriceImpact: |(in - out) / in * 100| as the exact fraction
\* num/den (den = 0: the float is NaN or Infinity)
calculatePriceImpact(amountIn, amountOut) ==
    [num |-> (IF amountIn >= amountOut THEN amountIn - amountOut
              ELSE amountOut - amountIn) * 100,
     den |-> amountIn]

\* a faulty variant: the addresses are compared as written
IsNativeAddressAsWritten(token, nativeCurrency) ==
    token = nativeCurrency.address

\* inputToken.toLowerCase() === nativeToken.address?.toLowerCase()
IsNativeAddress(token, nativeCurrency) ==
    /\ nativeCurrency.address # NoAddress
    /\ ToLower(token) = ToLower(nativeCurrency.address)

\* protocolConfig.defaultFeeBps * 100
ProtocolFee(protocolConfig) == protocolConfig.defaultFeeBps * 100

\* ------------------------------------------------------- the swap pipeline

NoResult == [kind |-> "none"]
Return(value) == [kind |-> "return", value |-> value]
Throw(error) == [kind |-> "throw", error |-> error]

NoLocals ==
    [ protocolConfig |-> Undefined,   \* prepareSwapTransaction: protocolConfig
      nativeToken |-> Undefined,      \* prepareSwapTransaction: nativeToken
      isNativeToken |-> FALSE,        \* prepareSwapTransaction: isNativeToken
      decimals |-> -1,                \* prepareSwapTransaction: decimals
      qConfig |-> Undefined,          \* getQuote: protocolConfig
      qDecimals |-> -1,               \* getQuote: decimals
      amountIn |-> -1,                \* getQuote: amountIn
      quote |-> Undefined,            \* prepareSwapTransaction: quote
      now |-> -1,                     \* the Date.now() the deadline was taken from
      receipt |-> Undefined,          \* executeSwap: receipt
      hadConfig |-> FALSE,            \* history: a protocol configuration and a
      hadNetwork |-> FALSE ]          \* network were registered when the call began

\* the locals of a call that begins on chainId
CallLocals(chainId) ==
    [NoLocals EXCEPT !.hadConfig = getProtocolConfig(chainId) # Undefined,
                     !.hadNetwork = getNetwork(chainId) # Undefined]

\* getTokenDecimals(tokenAddress, chainId) up to its readContract: the
\* provider is looked up again, and its publicClient must exist
GetTokenDecimalsCall(insts, tokenAddress, chainId) ==
    LET g == GetProviderResult(insts, chainId)
        after == InstancesAfterGet(insts, chainId)
    IN  IF ~g.ok THEN [thrown |-> TRUE, error |-> g.error, insts |-> after]
        ELSE IF ~g.provider.publicClient
        THEN [thrown |-> TRUE, error |-> "TypeError: publicClient is undefined",
              insts |-> after]
        ELSE [thrown |-> FALSE, insts |-> after,
              read |-> [fn |-> "decimals", address |-> tokenAddress, args |-> <<>>]]

\* getQuote: if (!protocolConfig)
QuoteConfigMissing(protocolConfig) == protocolConfig = Undefined

\* getQuote from its first line to the decimals read of line 71
QuoteEnter(insts, baseToken, chainId) ==
    LET g == GetProviderResult(insts, chainId)
        after == InstancesAfterGet(insts, chainId)
        protocolConfig == getProtocolConfig(chainId)
        d == GetTokenDecimalsCall(after, baseToken, chainId)
    IN  IF ~g.ok
        THEN [thrown |-> TRUE, error |-> g.error, insts |-> after, qConfig |-> Undefined]
        ELSE IF QuoteConfigMissing(protocolConfig)
        THEN [thrown |-> TRUE, error |-> "Protocol configuration not found",
              insts |-> after, qConfig |-> protocolConfig]
        ELSE IF d.thrown
        THEN [thrown |-> TRUE, error |-> d.error, insts |-> d.insts,
              qConfig |-> protocolConfig]
        ELSE [thrown |-> FALSE, insts |-> d.insts, qConfig |-> protocolConfig,
              read |-> d.read]

\* a remote operation as issued, and as answered
Pending == [pending |-> TRUE]
Issue(rds, read) ==
    Append(rds, [fn |-> read.fn, address |-> read.address, args |-> read.args,
                 answer |-> Pending])
Resolve(rds, answer) == [rds EXCEPT ![Len(rds)].answer = answer]

\* the call moves into getQuote (directly, or from prepareSwapTransaction)
EnterQuote(insts, lcl, rds, baseToken, chainId) ==
    LET q == QuoteEnter(insts, baseToken, chainId)
    IN  /\ instances' = q.insts
        /\ locals' = [lcl EXCEPT !.qConfig = q.qConfig]
        /\ IF q.thrown
           THEN /\ pc' = "done"
                /\ result' = Throw(q.error)
                /\ reads' = rds
           ELSE /\ pc' = "await_quote_decimals"
                /\ result' = NoResult
                /\ reads' = Issue(rds, q.read)

\* a caller calls getQuote(baseToken, outputToken, amount, chainId)
GetQuoteStart(baseToken, outputToken, amount, chainId) ==
    /\ pc = "idle"
    /\ op' = "getQuote"
    /\ args' = [inputToken |-> baseToken, outputToken |-> outputToken,
                amount |-> amount, chainId |-> chainId]
    /\ EnterQuote(instances, CallLocals(chainId), reads, baseToken, chainId)
    /\ UNCHANGED <<networks, protocols>>

\* the quoter / router read getQuote issues once it has amountIn
QuoteRead(protocolConfig, baseToken, outputToken, amountIn) ==
    IF protocolConfig.version = "v3"
    THEN [fn |-> "quoteExactInputSingle", address |-> protocolConfig.quoterAddress,
          args |-> [tokenIn |-> baseToken, tokenOut |-> outputToken,
                    amountIn |-> amountIn, fee |-> ProtocolFee(protocolConfig)]]
    ELSE [fn |-> "getAmountsOut", address |-> protocolConfig.routerAddress,
          args |-> <<amountIn, <<baseToken, outputToken>>>>]

\* the decimals read of getQuote resolves or rejects (lines 71-131)
QuoteDecimalsReturn(answer) ==
    /\ pc = "await_quote_decimals"
    /\ LET a == answer
       IN  IF ~a.ok
           THEN /\ pc' = "done"
                /\ result' = Throw(a.error)
                /\ reads' = Resolve(reads, answer)
                /\ UNCHANGED locals
           ELSE IF ~args.amount.valid
           THEN /\ pc' = "done"
                /\ result' = Throw("InvalidDecimalNumberError")
                /\ locals' = [locals EXCEPT !.qDecimals = a.value]
                /\ reads' = Resolve(reads, answer)
           ELSE LET amountIn == ParseUnits(args.amount, a.value)
                IN  /\ pc' = "await_quote_read"
                    /\ result' = NoResult
                    /\ locals' = [locals EXCEPT !.qDecimals = a.value,
                                                !.amountIn = amountIn]
                    /\ reads' = Issue(Resolve(reads, answer),
                          QuoteRead(locals.qConfig, args.inputToken,
                                    args.outputToken, amountIn))
    /\ UNCHANGED <<op, args, regVars>>

\* a faulty variant: the first element of the answer is taken on every version
QuoteAmountOutFirst(protocolConfig, value) == value[1]

\* quoterResult[0] on v3, amountsOut[1] on any other version (0-based)
QuoteAmountOut(protocolConfig, value) ==
    IF protocolConfig.version = "v3" THEN value[1] ELSE value[2]

\* the SwapQuoteResult getQuote returns
QuoteResult(protocolConfig, baseToken, outputToken, amountIn, value) ==
    [ amountIn |-> amountIn,
      amountOut |-> QuoteAmountOut(protocolConfig, value),
      priceImpact |-> calculatePriceImpact(amountIn, QuoteAmountOut(protocolConfig, value)),
      route |-> <<baseToken, outputToken>> ]

\* a faulty variant: the two token-input names of v2 are exchanged
SwapFunctionNameExchanged(version, isNativeToken, outputIsNative) ==
    IF version = "v3"
    THEN (IF isNativeToken THEN "exactInputSingleETH" ELSE "exactInputSingle")
    ELSE IF isNativeToken THEN "swapExactETHForTokens"
    ELSE IF outputIsNative THEN "swapExactTokensForTokens"
    ELSE "swapExactTokensForETH"

\* functionName of prepareSwapTransaction (lines 231-254)
SwapFunctionName(version, isNativeToken, outputIsNative) ==
    IF version = "v3"
    THEN (IF isNativeToken THEN "exactInputSingleETH" ELSE "exactInputSingle")
    ELSE IF isNativeToken THEN "swapExactETHForTokens"
    ELSE IF outputIsNative THEN "swapExactTokensForETH"
    ELSE "swapExactTokensForTokens"

\* args of prepareSwapTransaction, named as the router ABI names them
SwapArgs(protocolConfig, isNativeToken, inputToken, outputToken, walletAddress, quote, amountOutMin, deadline) ==
    IF protocolConfig.version = "v3"
    THEN [ tokenIn |-> inputToken, tokenOut |-> outputToken,
           fee |-> ProtocolFee(protocolConfig), recipient |-> walletAddress,
           amountIn |-> quote.amountIn, amountOutMinimum |-> amountOutMin,
           sqrtPriceLimitX96 |-> 0 ]
    ELSE IF isNativeToken
    THEN [ amountOutMin |-> amountOutMin, path |-> <<inputToken, outputToken>>,
           to |-> walletAddress, deadline |-> deadline ]
    ELSE [ amountIn |-> quote.amountIn, amountOutMin |-> amountOutMin,
           path |-> <<inputToken, outputToken>>, to |-> walletAddress,
           deadline |-> deadline ]

\* deadline = BigInt(Math.floor(Date.now() / 1000) + 1200)
Deadline(now) == (now \div 1000) + DEADLINE_SECONDS

\* {to, data, ...(isNativeToken && {value: quote.amountIn})}
Transaction(to, data, isNativeToken, amountIn) ==
    IF isNativeToken
    THEN [to |-> to, data |-> data, value |-> amountIn]
    ELSE [to |-> to, data |-> data]

\* prepareSwapTransaction from the quote to its return (lines 223-268)
BuildTransaction(protocolConfig, nativeToken, inputToken, outputToken, walletAddress, isNativeToken, quote, now) ==
    LET amountOutMin == AmountOutMin(quote.amountOut)
        deadline == Deadline(now)
        functionName ==
            SwapFunctionName(protocolConfig.version, isNativeToken,
                IsNativeAddress(outputToken, nativeToken))
        callArgs == SwapArgs(protocolConfig, isNativeToken, inputToken,
                             outputToken, walletAddress, quote, amountOutMin, deadline)
    IN  Transaction(protocolConfig.routerAddress,
                    [functionName |-> functionName, args |-> callArgs],
                    isNativeToken, quote.amountIn)

\* a faulty variant: a rejected read is answered by a quote of amountOut 0
GetQuoteOutcomeZeroQuote(protocolConfig, baseToken, outputToken, amountIn, answer) ==
    Return(QuoteResult(protocolConfig, baseToken, outputToken, amountIn,
                       IF answer.ok THEN answer.value ELSE <<0, 0>>))

\* a faulty variant: the quote of the last build is kept and answers a
\* build of the same tokens, amount and chain
GetQuoteOutcomeReusing(protocolConfig, baseToken, outputToken, amountIn, answer) ==
    IF ~answer.ok
    THEN Throw(answer.error)
    ELSE IF /\ "amountOut" \in DOMAIN served
            /\ served.inputToken = baseToken /\ served.outputToken = outputToken
    THEN Return([amountIn |-> amountIn, amountOut |-> served.amountOut,
                 priceImpact |-> calculatePriceImpact(amountIn, served.amountOut),
                 route |-> <<baseToken, outputToken>>])
    ELSE Return(QuoteResult(protocolConfig, baseToken, outputToken, amountIn,
                            answer.value))

\* getQuote once its quoter / router read has resolved or rejected
\* (lines 75-139): the rejection is thrown, the answer becomes the quote
GetQuoteOutcome(protocolConfig, baseToken, outputToken, amountIn, answer) ==
    IF ~answer.ok
    THEN Throw(answer.error)
    ELSE Return(QuoteResult(protocolConfig, baseToken, outputToken, amountIn,
                            answer.value))

\* the quoter / router read resolves or rejects: getQuote returns or throws,
\* and on a quote prepareSwapTransaction goes on to build the transaction
QuoteReadReturn(answer, now) ==
    /\ pc = "await_quote_read"
    /\ reads' = Resolve(reads, answer)
    /\ pc' = "done"
    /\ LET q == GetQuoteOutcome(locals.qConfig, args.inputToken, args.outputToken,
                                locals.amountIn, answer)
       IN  IF q.kind = "throw"
           THEN /\ result' = q
                /\ UNCHANGED locals
           ELSE IF op = "getQuote"
           THEN /\ result' = q
                /\ locals' = [locals EXCEPT !.quote = q.value]
           ELSE /\ result' = Return(
                      BuildTransaction(locals.protocolConfig, locals.nativeToken,
                          args.inputToken, args.outputToken, args.walletAddress,
                          locals.isNativeToken, q.value, now))
                /\ locals' = [locals EXCEPT !.quote = q.value, !.now = now]
    /\ UNCHANGED <<op, args, regVars>>

\* a faulty variant: only the network metadata is looked at
PrepareConfigMissingNetworkOnly(protocolConfig, network) ==
    network = Undefined

\* prepareSwapTransaction: if (!protocolConfig || !network)
PrepareConfigMissing(protocolConfig, network) ==
    protocolConfig = Undefined \/ network = Undefined

\* a caller calls prepareSwapTransaction(inputToken, outputToken, amount,
\* walletAddress, chainId): lines 207-222 up to the first remote read
PrepareSwapTransactionStart(inputToken, outputToken, amount, walletAddress, chainId) ==
    /\ pc = "idle"
    /\ op' = "prepareSwapTransaction"
    /\ args' = [inputToken |-> inputToken, outputToken |-> outputToken,
                amount |-> amount, walletAddress |-> walletAddress,
                chainId |-> chainId]
    /\ LET g == GetProviderResult(instances, chainId)
           after == InstancesAfterGet(instances, chainId)
           protocolConfig == getProtocolConfig(chainId)
           network == getNetwork(chainId)
       IN  IF ~g.ok
           THEN /\ pc' = "done"
                /\ result' = Throw(g.error)
                /\ instances' = after
                /\ locals' = CallLocals(chainId)
                /\ reads' = reads
           ELSE IF PrepareConfigMissing(protocolConfig, network)
           THEN /\ pc' = "done"
                /\ result' = Throw("Protocol or network configuration not found")
                /\ instances' = after
                /\ locals' = [CallLocals(chainId) EXCEPT !.protocolConfig = protocolConfig]
                /\ reads' = reads
           ELSE LET isNativeToken == IsNativeAddress(inputToken, network.nativeCurrency)
                    lcl == [CallLocals(chainId) EXCEPT !.protocolConfig = protocolConfig,
                                            !.nativeToken = network.nativeCurrency,
                                            !.isNativeToken = isNativeToken]
                    d == GetTokenDecimalsCall(after, inputToken, chainId)
                IN  IF isNativeToken
                    THEN EnterQuote(after,
                             [lcl EXCEPT !.decimals = network.nativeCurrency.decimals],
                             reads, inputToken, chainId)
                    ELSE IF d.thrown
                    THEN /\ pc' = "done"
                         /\ result' = Throw(d.error)
                         /\ instances' = d.insts
                         /\ locals' = lcl
                         /\ reads' = reads
                    ELSE /\ pc' = "await_input_decimals"
                         /\ result' = NoResult
                         /\ instances' = d.insts
                         /\ locals' = lcl
                         /\ reads' = Issue(reads, d.read)
    /\ UNCHANGED <<networks, protocols>>

\* the decimals read of line 219 resolves or rejects; on success the call
\* enters getQuote (line 222)
PrepareDecimalsReturn(answer) ==
    /\ pc = "await_input_decimals"
    /\ LET a == answer
       IN  IF ~a.ok
           THEN /\ pc' = "done"
                /\ result' = Throw(a.error)
                /\ reads' = Resolve(reads, answer)
                /\ UNCHANGED <<locals, instances>>
           ELSE EnterQuote(instances, [locals EXCEPT !.decimals = a.value],
                           Resolve(reads, answer), args.inputToken, args.chainId)
    /\ UNCHANGED <<op, args, networks, protocols>>

\* a faulty variant: only a reverted receipt is taken as a failure
ReceiptOutcomeRevertedOnly(receipt, txHash) ==
    IF receipt.status = "reverted"
    THEN [kind |-> "throw", error |-> "Transaction failed", status |-> receipt.status]
    ELSE Return(txHash)

\* executeSwap: if (receipt.status !== 'success') throw ...; return txHash
ReceiptOutcome(receipt, txHash) ==
    IF receipt.status # "success"
    THEN [kind |-> "throw", error |-> "Transaction failed", status |-> receipt.status]
    ELSE Return(txHash)

\* a faulty variant: the wait asks for one confirmation
WaitReadOneConfirmation(txHash) ==
    [fn |-> "waitForTransactionReceipt", address |-> NoAddress,
     args |-> [hash |-> txHash, confirmations |-> 1]]

\* waitForTransactionReceipt({ hash: txHash, confirmations: 2 })
WaitRead(txHash) ==
    [fn |-> "waitForTransactionReceipt", address |-> NoAddress,
     args |-> [hash |-> txHash, confirmations |-> CONFIRMATIONS]]

\* a caller calls executeSwap(txHash, chainId): lines 165-176
ExecuteSwapStart(txHash, chainId) ==
    /\ pc = "idle"
    /\ op' = "executeSwap"
    /\ args' = [txHash |-> txHash, chainId |-> chainId]
    /\ instances' = InstancesAfterGet(instances, chainId)
    /\ LET g == GetProviderResult(instances, chainId)
           network == getNetwork(chainId)
       IN  /\ locals' = CallLocals(chainId)
           /\ IF ~g.ok
              THEN /\ pc' = "done"
                   /\ result' = Throw(g.error)
                   /\ reads' = reads
              ELSE IF network = Undefined
              THEN /\ pc' = "done"
                   /\ result' = Throw("Network not found")
                   /\ reads' = reads
              ELSE IF ~g.provider.publicClient
              THEN /\ pc' = "done"
                   /\ result' = Throw("TypeError: publicClient is undefined")
                   /\ reads' = reads
              ELSE /\ pc' = "await_receipt"
                   /\ result' = NoResult
                   /\ reads' = Issue(reads, WaitRead(txHash))
    /\ UNCHANGED <<networks, protocols>>

\* the receipt wait resolves or rejects: lines 177-187 (the catch rethrows
\* what it caught)
ExecuteSwapReturn(answer) ==
    /\ pc = "await_receipt"
    /\ pc' = "done"
    /\ reads' = Resolve(reads, answer)
    /\ LET a == answer
       IN  IF ~a.ok
           THEN /\ result' = Throw(a.error)
                /\ UNCHANGED locals
           ELSE /\ locals' = [locals EXCEPT !.receipt = a]
                /\ result' = ReceiptOutcome(a, args.txHash)
    /\ UNCHANGED <<op, args, regVars>>

\* actions/swapUtils.ts executeSwap: if (receipt.status !== 'success') ...
LegacyReceiptOutcome(receipt, txHash) ==
    IF receipt.status # "success"
    THEN [kind |-> "throw", error |-> "Transaction failed", status |-> receipt.status]
    ELSE Return(txHash)

\* a caller calls actions/swapUtils.ts executeSwap(txHash, type): the client
\* comes from the settings, no registry is read
LegacyExecuteSwapStart(txHash, type) ==
    /\ pc = "idle"
    /\ op' = "legacyExecuteSwap"
    /\ args' = [txHash |-> txHash, type |-> type]
    /\ locals' = NoLocals
    /\ pc' = "await_legacy_receipt"
    /\ result' = NoResult
    /\ reads' = Issue(reads, WaitRead(txHash))
    /\ UNCHANGED regVars

LegacyExecuteSwapReturn(answer) ==
    /\ pc = "await_legacy_receipt"
    /\ pc' = "done"
    /\ reads' = Resolve(reads, answer)
    /\ LET a == answer
       IN  IF ~a.ok
           THEN /\ result' = Throw(a.error)
                /\ UNCHANGED locals
           ELSE /\ locals' = [locals EXCEPT !.receipt = a]
                /\ result' = LegacyReceiptOutcome(a, args.txHash)
    /\ UNCHANGED <<op, args, regVars>>

NoArgs == [none |-> TRUE]

\* the caller has taken the result; the next call may start
CallEnds ==
    /\ pc = "done"
    /\ pc' = "idle"
    /\ op' = "none"
    /\ args' = NoArgs
    /\ locals' = NoLocals
    /\ reads' = <<>>
    /\ result' = NoResult
    /\ UNCHANGED regVars

\* ----------------------------------------------------------- TokenRegistry

\* a JavaScript Map: its entries in insertion order
EmptyMap == <<>>
MapIndex(m, k) == { i \in 1..Len(m) : m[i].key = k }
MapHas(m, k) == MapIndex(m, k) # {}
MapGet(m, k) ==
    IF MapHas(m, k) THEN m[CHOOSE i \in MapIndex(m, k) : TRUE].value ELSE Undefined
\* Map.set: an existing key keeps its place and takes the new value
MapSet(m, k, v) ==
    IF MapHas(m, k)
    THEN [i \in 1..Len(m) |-> IF m[i].key = k THEN [key |-> k, value |-> v] ELSE m[i]]
    ELSE Append(m, [key |-> k, value |-> v])
\* a faulty variant: the entries that follow the key go with it
MapDeleteFrom(m, k) ==
    IF MapHas(m, k) THEN SubSeq(m, 1, (CHOOSE i \in MapIndex(m, k) : TRUE) - 1) ELSE m
\* Map.delete
MapDelete(m, k) == SelectSeq(m, LAMBDA e : e.key # k)
MapValues(m) == [i \in 1..Len(m) |-> m[i].value]

\* this.tokens.get(chainId): a chain has a Map once a token was registered on it
NoMap == [has |-> FALSE, map |-> EmptyMap]

\* a faulty variant: a key that is already present keeps its first payload
RegisterTokenTokensKeepFirst(tok, metadata) ==
    LET networkTokens == tok[metadata.chainId].map
    IN  IF MapHas(networkTokens, ToUpper(metadata.symbol))
        THEN tok
        ELSE [tok EXCEPT ![metadata.chainId] =
                [has |-> TRUE,
                 map |-> MapSet(networkTokens, ToUpper(metadata.symbol), metadata)]]

\* a faulty variant: a key that is already present keeps its address
RegisterTokenTokensMerging(tok, metadata) ==
    LET networkTokens == tok[metadata.chainId].map
        k == ToUpper(metadata.symbol)
        merged == IF MapHas(networkTokens, k)
                  THEN [metadata EXCEPT !.address = MapGet(networkTokens, k).address]
                  ELSE metadata
    IN  [tok EXCEPT ![metadata.chainId] =
            [has |-> TRUE, map |-> MapSet(networkTokens, k, merged)]]

\* registerToken(metadata): the tokens map it leaves
RegisterTokenTokens(tok, metadata) ==
    LET networkTokens == tok[metadata.chainId].map
    IN  [tok EXCEPT ![metadata.chainId] =
            [has |-> TRUE,
             map |-> MapSet(networkTokens, ToUpper(metadata.symbol), metadata)]]

\* registerToken(metadata): addressMap gets an empty Map under the address
RegisterTokenAddressMap(amap, metadata) == amap \cup {metadata.address}

\* the history after registerToken(metadata)
RegisterTokenHistory(hist, tok, metadata) ==
    LET k == ToUpper(metadata.symbol)
        before == MapGet(tok[metadata.chainId].map, k)
    IN  [hist EXCEPT ![metadata.chainId][k] =
            [payload |-> metadata,
             replaced |-> before # Undefined /\ before # metadata]]

RegisterToken(metadata) ==
    /\ tokens' = RegisterTokenTokens(tokens, metadata)
    /\ addressMap' = RegisterTokenAddressMap(addressMap, metadata)
    /\ lastReg' = RegisterTokenHistory(lastReg, tokens, metadata)
    /\ tokRet' = [op |-> "registerToken", ret |-> TRUE]

\* registerTokens(tokens): registerToken on each, counting the successes
RECURSIVE RegisterAll(_, _)
RegisterAll(st, list) ==
    IF list = <<>> THEN st
    ELSE RegisterAll(
            [tokens |-> RegisterTokenTokens(st.tokens, Head(list)),
             addressMap |-> RegisterTokenAddressMap(st.addressMap, Head(list)),
             lastReg |-> RegisterTokenHistory(st.lastReg, st.tokens, Head(list)),
             successful |-> st.successful + 1],
            Tail(list))

RegisterTokens(list) ==
    LET st == RegisterAll([tokens |-> tokens, addressMap |-> addressMap,
                           lastReg |-> lastReg, successful |-> 0], list)
    IN  /\ tokens' = st.tokens
        /\ addressMap' = st.addressMap
        /\ lastReg' = st.lastReg
        /\ tokRet' = [op |-> "registerTokens", ret |-> st.successful]

\* a faulty variant: the symbol is looked up as written
getTokenAsWritten(symbol, chainId) ==
    IF tokens[chainId].has THEN MapGet(tokens[chainId].map, symbol)
    ELSE Undefined

\* getToken(symbol, chainId)
getToken(symbol, chainId) ==
    IF tokens[chainId].has THEN MapGet(tokens[chainId].map, ToUpper(symbol))
    ELSE Undefined

GetToken(symbol, chainId) ==
    /\ tokRet' = [op |-> "getToken", symbol |-> symbol, chainId |-> chainId,
                  ret |-> getToken(symbol, chainId)]
    /\ UNCHANGED <<tokens, addressMap, lastReg>>

\* getNetworkTokens(chainId)
getNetworkTokens(chainId) ==
    IF tokens[chainId].has THEN MapValues(tokens[chainId].map) ELSE <<>>

GetNetworkTokens(chainId) ==
    /\ tokRet' = [op |-> "getNetworkTokens", chainId |-> chainId,
                  ret |-> getNetworkTokens(chainId)]
    /\ UNCHANGED <<tokens, addressMap, lastReg>>

\* removeToken(symbol, chainId): !!this.tokens.get(chainId)?.delete(key)
RemoveToken(symbol, chainId) ==
    LET k == ToUpper(symbol)
        existed == tokens[chainId].has /\ MapHas(tokens[chainId].map, k)
    IN  /\ tokens' = IF tokens[chainId].has
                     THEN [tokens EXCEPT ![chainId].map = MapDelete(@, k)]
                     ELSE tokens
        /\ lastReg' = [lastReg EXCEPT ![chainId][k] = [payload |-> Undefined,
                                                       replaced |-> FALSE]]
        /\ tokRet' = [op |-> "removeToken", symbol |-> symbol, chainId |-> chainId,
                      ret |-> existed]
        /\ UNCHANGED addressMap

\* -------------------------------------------------------------- getInstance

\* the components that ask for the registries
Components == 1..MaxCallers
\* what a component holds before it has asked
NoInstances == [net |-> 0, tok |-> 0]

\* a faulty variant: every call constructs
InstanceMissingAlways(instance) == TRUE

\* getInstance: if (!X.instance)
InstanceMissing(instance) == instance = 0

\* getInstance(): X.instance after the call, and the objects constructed so
\* far; fresh is what the private constructor leaves in the new object
GetInstance(instance, objects, fresh) ==
    IF InstanceMissing(instance)
    THEN [instance |-> Len(objects) + 1, objects |-> Append(objects, fresh)]
    ELSE [instance |-> instance, objects |-> objects]

\* a component calls NetworkRegistry.getInstance() and keeps what it returns
NetworkRegistryGetInstance(k) ==
    LET g == GetInstance(netInstance, netObjects, [c \in Chains |-> Undefined])
    IN  /\ netInstance' = g.instance
        /\ netObjects' = g.objects
        /\ held' = [held EXCEPT ![k].net = g.instance]
        /\ UNCHANGED <<tokInstance, tokObjects>>

\* a component calls TokenRegistry.getInstance() and keeps what it returns
TokenRegistryGetInstance(k) ==
    LET g == GetInstance(tokInstance, tokObjects, [c \in Chains |-> NoMap])
    IN  /\ tokInstance' = g.instance
        /\ tokObjects' = g.objects
        /\ held' = [held EXCEPT ![k].tok = g.instance]
        /\ UNCHANGED <<netInstance, netObjects>>

\* a component registers a network through the instance it holds
RegisterNetworkThrough(k, metadata) ==
    /\ held[k].net # 0
    /\ netObjects' = [netObjects EXCEPT ![held[k].net][metadata.chainId] = metadata]
    /\ UNCHANGED <<netInstance, tokInstance, tokObjects, held>>

\* a component registers a token through the instance it holds
RegisterTokenThrough(k, metadata) ==
    /\ held[k].tok # 0
    /\ tokObjects' = [tokObjects EXCEPT ![held[k].tok] = RegisterTokenTokens(@, metadata)]
    /\ UNCHANGED <<netInstance, tokInstance, netObjects, held>>

\* what the component finds through the instance it holds
NetworkThrough(k, chainId) == netObjects[held[k].net][chainId]
TokenThrough(k, symbol, chainId) ==
    MapGet(tokObjects[held[k].tok][chainId].map, ToUpper(symbol))

\* ------------------------------------------------- the portfolio aggregator

\* a decimal string ('150', '1.5', '0') is its digits and the number of digits
\* after the point, without trailing zeros; Number() of it is that rational,
\* and the balances and prices drawn below are numbers a double holds exactly
RECURSIVE Normal(_)
Normal(d) ==
    IF d.scale > 0 /\ d.digits % 10 = 0
    THEN Normal([digits |-> d.digits \div 10, scale |-> d.scale - 1])
    ELSE d

\* viem formatUnits(value, decimals)
formatUnits(value, decimals) == Normal([digits |-> value, scale |-> decimals])

\* the string '0'
Zero == [digits |-> 0, scale |-> 0]

\* (Number(a) * Number(b)).toString()
Times(a, b) == Normal([digits |-> a.digits * b.digits, scale |-> a.scale + b.scale])

\* (Number(a) + Number(b)).toString()
Plus(a, b) ==
    LET sc == IF a.scale >= b.scale THEN a.scale ELSE b.scale
    IN  Normal([digits |-> a.digits * Pow10(sc - a.scale) + b.digits * Pow10(sc - b.scale),
                scale |-> sc])

\* the four aggregators of the repository
GetBalances == "BalancesProvider.getBalances"            \* providers/balances.ts
GetWalletBalance == "WalletProvider.getWalletBalance"    \* part_000
GetWalletPortfolio == "BalancesProvider.getWalletPortfolio"   \* part_005
UtilsPortfolio == "TokenUtils.getWalletPortfolio"        \* providers/tokenUtils.ts
Aggregators == {GetBalances, GetWalletBalance, GetWalletPortfolio, UtilsPortfolio}

\* the tokens of a configured contract set (TokenData for part_005, whose
\* decimals come from the configuration), and the chain configurations: the
\* native decimals are scaled down from 18 to keep the raw balances small
PortfolioTokens ==
    << [symbol |-> "USDC", address |-> "0xA0b8", decimals |-> 1],
       [symbol |-> "DAI", address |-> "0x6B17", decimals |-> 0] >>
ChainConfigs ==
    { [nativeCurrency |-> [symbol |-> "ETH", decimals |-> 1],
       contracts |-> SubSeq(PortfolioTokens, 1, n),
       priceSource |-> src] :
        n \in 0..Len(PortfolioTokens), src \in {"oracle", "none"} }

\* the entries of the contract set a read makes a task of: getTokenBalances
\* of balances.ts leaves the keys 'priceFeeds' and 'dexRouter' out (line 105),
\* getWalletBalance takes every key of the set (part_000 line 66), the map of
\* price feeds with them where an oracle is configured
ContractEntries(impl, config) ==
    IF impl = GetWalletBalance /\ config.priceSource = "oracle"
    THEN config.contracts \o <<[symbol |-> "priceFeeds", address |-> "priceFeeds", decimals |-> 0]>>
    ELSE config.contracts

\* answers of the remote collaborators of an aggregator
PriceFailed == [ok |-> FALSE, error |-> "PriceLookupError"]
BalanceAnswers == { [ok |-> TRUE, value |-> v] : v \in {0, 20, 1500} } \cup {ReadFailed}
PriceAnswers ==
    { [ok |-> TRUE, value |-> [digits |-> d, scale |-> 0]] : d \in {1, 2000} }
    \cup {PriceFailed}
\* a read the aggregator does not issue
Unread == [ok |-> TRUE, unread |-> TRUE]

\* the answers to the remote operations of one token's task: balanceOf and
\* decimals (read together), the price lookup, and the second decimals read
\* of getWalletBalance
TaskAnswers(impl) ==
    [ balance : BalanceAnswers,
      decimals : IF impl = GetWalletPortfolio THEN {Unread} ELSE DecimalsAnswers,
      price : PriceAnswers,
      decimalsAgain : IF impl = GetWalletBalance THEN DecimalsAnswers ELSE {Unread} ]

\* getTokenPrice(tokenAddress) of balances.ts: the oracle read (or, without a
\* feed, the router read) is caught and answered by '0'; without feed and
\* router no read is made
getTokenPrice(config, answer) ==
    IF config.priceSource = "none" THEN Zero
    ELSE IF ~answer.ok THEN Zero
    ELSE answer.value

TaskThrown(error) == [thrown |-> TRUE, error |-> error]
TaskEntry(entry) == [thrown |-> FALSE, entry |-> entry]

\* the async callback of getTokenBalances (balances.ts lines 106-130)
BalancesTokenTask(config, token, a) ==
    IF ~a.balance.ok THEN TaskThrown(a.balance.error)
    ELSE IF ~a.decimals.ok THEN TaskThrown(a.decimals.error)
    ELSE LET formattedBalance == formatUnits(a.balance.value, a.decimals.value)
             price == getTokenPrice(config, a.price)
         IN  TaskEntry([token |-> token.address, symbol |-> token.symbol,
                        balance |-> formattedBalance, decimals |-> a.decimals.value,
                        price |-> price, value |-> Times(formattedBalance, price)])

\* the async callback of getWalletBalance (part_000 lines 67-85): neither
\* price path catches
WalletTokenTask(config, token, a) ==
    IF ~a.balance.ok THEN TaskThrown(a.balance.error)
    ELSE IF ~a.decimals.ok THEN TaskThrown(a.decimals.error)
    ELSE IF ~a.price.ok THEN TaskThrown(a.price.error)
    ELSE IF ~a.decimalsAgain.ok THEN TaskThrown(a.decimalsAgain.error)
    ELSE LET balance == formatUnits(a.balance.value, a.decimals.value)
         IN  TaskEntry([token |-> token.address, symbol |-> token.symbol,
                        balance |-> balance, decimals |-> a.decimalsAgain.value,
                        price |-> a.price.value, value |-> Times(balance, a.price.value)])

\* the async callback of getTokenBalances (part_005 lines 16-40): the price
\* request is not caught, and the entry has no value
PortfolioTokenTask(config, token, a) ==
    IF ~a.balance.ok THEN TaskThrown(a.balance.error)
    ELSE IF ~a.price.ok THEN TaskThrown(a.price.error)
    ELSE TaskEntry([token |-> token.address, symbol |-> token.symbol,
                    balance |-> formatUnits(a.balance.value, token.decimals),
                    decimals |-> token.decimals, price |-> a.price.value])

TokenTask(impl, config, token, a) ==
    CASE impl = GetBalances -> BalancesTokenTask(config, token, a)
      [] impl = GetWalletBalance -> WalletTokenTask(config, token, a)
      [] OTHER -> PortfolioTokenTask(config, token, a)

\* the native price: getNativePrice of balances.ts and getNativeTokenPrice of
\* part_000 catch and answer '0', getNativePrice of part_005 does not catch
NativePrice(impl, answer) ==
    IF answer.ok THEN TaskEntry(answer.value)
    ELSE IF impl = GetWalletPortfolio THEN TaskThrown(answer.error)
    ELSE TaskEntry(Zero)

\* balances.filter(b => Number(b.balance) > 0)
HeldBalances(balances) == SelectSeq(balances, LAMBDA b : b.balance.digits > 0)

\* a faulty variant: the native value is left out as soon as a token counts
RECURSIVE TotalValueOfTokens(_, _)
TotalValueOfTokens(nativeValue, values) ==
    IF values = <<>> THEN nativeValue
    ELSE IF Len(values) = 1 THEN Head(values)
    ELSE Plus(Head(values), TotalValueOfTokens(nativeValue, Tail(values)))

\* [nativeValue, ...values].reduce((sum, val) => sum + Number(val), 0)
RECURSIVE TotalValue(_, _)
TotalValue(nativeValue, values) ==
    IF values = <<>> THEN nativeValue
    ELSE TotalValue(Plus(nativeValue, Head(values)), Tail(values))

\* the native entry of getBalances and getWalletBalance
NativeToken(token, config, balance, price) ==
    [token |-> token, symbol |-> config.nativeCurrency.symbol, balance |-> balance,
     decimals |-> config.nativeCurrency.decimals, price |-> price,
     value |-> Times(balance, price)]

\* what getBalances returns (balances.ts lines 68-94)
BalancesPortfolio(config, nativeBalance, nativePrice, tokenBalances) ==
    [totalValue |-> TotalValue(Times(nativeBalance, nativePrice),
                               [i \in 1..Len(tokenBalances) |-> tokenBalances[i].value]),
     nativeBalance |-> nativeBalance,
     tokens |-> <<NativeToken("0x0000000000000000000000000000000000000000", config,
                              nativeBalance, nativePrice)>> \o tokenBalances]

\* what getWalletBalance returns (part_000 lines 89-114)
WalletPortfolio(config, nativeBalance, nativePrice, tokenBalances) ==
    [totalValue |-> TotalValue(Times(nativeBalance, nativePrice),
                               [i \in 1..Len(tokenBalances) |-> tokenBalances[i].value]),
     nativeBalance |-> nativeBalance,
     tokens |-> <<NativeToken("0x0", config, nativeBalance, nativePrice)>> \o tokenBalances]

\* what getWalletPortfolio returns (part_005 lines 74-94, tokenUtils.ts lines
\* 34-54): the native entry has no value and is not among the tokens
SeparatePortfolio(config, nativeBalance, nativePrice, tokenBalances) ==
    [nativeToken |-> [token |-> "0x0000000000000000000000000000000000000000",
                      symbol |-> config.nativeCurrency.symbol, balance |-> nativeBalance,
                      decimals |-> config.nativeCurrency.decimals, price |-> nativePrice],
     tokens |-> tokenBalances,
     totalValue |-> TotalValue(Times(nativeBalance, nativePrice),
                               [i \in 1..Len(tokenBalances) |->
                                   Times(tokenBalances[i].balance, tokenBalances[i].price)])]

\* the remote stages of an aggregator, in the order it awaits them;
\* TokenUtils has placeholders for the prices and the token balances
Stages(impl) ==
    CASE impl \in {GetBalances, GetWalletBalance} ->
            <<"native_balance", "tokens", "native_price">>
      [] impl = GetWalletPortfolio -> <<"native_balance", "native_price", "tokens">>
      [] OTHER -> <<"native_balance">>

\* no portfolio read in progress
NoPortfolio ==
    [pc |-> "idle", impl |-> "none", config |-> Undefined, stage |-> 0,
     nativeAnswer |-> Pending, nativeBalance |-> Undefined,
     priceAnswer |-> Pending, nativePrice |-> Zero,
     answers |-> <<>>, entries |-> <<>>, result |-> NoResult]

\* the portfolio the read returns once every stage is through
Portfolio(p) ==
    CASE p.impl = GetBalances ->
            BalancesPortfolio(p.config, p.nativeBalance, p.nativePrice,
                              HeldBalances(p.entries))
      [] p.impl = GetWalletBalance ->
            WalletPortfolio(p.config, p.nativeBalance, p.nativePrice, p.entries)
      [] OTHER ->
            SeparatePortfolio(p.config, p.nativeBalance, p.nativePrice, p.entries)

\* the read moves on to its stage n: Promise.all of no task resolves at
\* once, and after the last stage the portfolio is returned
RECURSIVE EnterStage(_, _)
EnterStage(p, n) ==
    IF n > Len(Stages(p.impl))
    THEN [p EXCEPT !.pc = "done", !.stage = n, !.result = Return(Portfolio(p))]
    ELSE IF Stages(p.impl)[n] = "tokens" /\ p.entries = <<>>
    THEN EnterStage(p, n + 1)
    ELSE [p EXCEPT !.pc = Stages(p.impl)[n], !.stage = n]

PortfolioThrows(p, error) == [p EXCEPT !.pc = "done", !.result = Throw(error)]

\* a caller asks an aggregator for the portfolio of a wallet
PortfolioStart(impl, config) ==
    /\ pf.pc = "idle"
    /\ LET tasks == IF impl = UtilsPortfolio THEN 0 ELSE Len(ContractEntries(impl, config))
       IN  pf' = EnterStage([NoPortfolio EXCEPT
                                !.impl = impl, !.config = config,
                                !.answers = [i \in 1..tasks |-> Pending],
                                !.entries = [i \in 1..tasks |-> Pending]], 1)

\* client.getBalance resolves or rejects
NativeBalanceReturn(answer) ==
    /\ pf.pc = "native_balance"
    /\ LET p == [pf EXCEPT !.nativeAnswer = answer]
       IN  pf' = IF ~answer.ok THEN PortfolioThrows(p, answer.error)
                 ELSE EnterStage(
                        [p EXCEPT !.nativeBalance =
                            formatUnits(answer.value, pf.config.nativeCurrency.decimals)],
                        pf.stage + 1)

\* the task of the i-th token settles: a rejection rejects the Promise.all
\* and with it the read, the last fulfilment completes the stage
TokenTaskReturn(i, a) ==
    /\ pf.pc = "tokens"
    /\ pf.entries[i] = Pending
    /\ LET t == TokenTask(pf.impl, pf.config, ContractEntries(pf.impl, pf.config)[i], a)
           p == [pf EXCEPT !.answers[i] = a]
       IN  pf' = IF t.thrown THEN PortfolioThrows(p, t.error)
                 ELSE LET q == [p EXCEPT !.entries[i] = t.entry]
                      IN  IF \E j \in 1..Len(q.entries) : q.entries[j] = Pending
                          THEN q
                          ELSE EnterStage(q, pf.stage + 1)

\* the native price request resolves or rejects
NativePriceReturn(answer) ==
    /\ pf.pc = "native_price"
    /\ LET t == NativePrice(pf.impl, answer)
           p == [pf EXCEPT !.priceAnswer = answer]
       IN  pf' = IF t.thrown THEN PortfolioThrows(p, t.error)
                 ELSE EnterStage([p EXCEPT !.nativePrice = t.entry], pf.stage + 1)

\* the caller has taken the portfolio or the error
PortfolioEnds ==
    /\ pf.pc = "done"
    /\ pf' = NoPortfolio

\* ------------------------------------------------------- the swap action

\* a text is the sequence of its characters
LowerLetters == <<"a", "b", "c", "d", "e", "f", "g", "h", "i", "j", "k", "l", "m", "n", "o", "p", "q", "r", "s", "t", "u", "v", "w", "x", "y", "z">>
UpperLetters == <<"A", "B", "C", "D", "E", "F", "G", "H", "I", "J", "K", "L", "M", "N", "O", "P", "Q", "R", "S", "T", "U", "V", "W", "X", "Y", "Z">>
IsDigit(c) == c \in {"0", "1", "2", "3", "4", "5", "6", "7", "8", "9"}
\* \s of a regular expression, of which the texts drawn have the blank only
IsSpace(c) == c = " "
\* \w of a regular expression
IsWordChar(c) ==
    \/ \E i \in 1..Len(LowerLetters) : c = LowerLetters[i] \/ c = UpperLetters[i]
    \/ IsDigit(c)
    \/ c = "_"
\* String.prototype.toLowerCase
LowerChar(c) ==
    IF \E i \in 1..Len(UpperLetters) : c = UpperLetters[i]
    THEN LowerLetters[CHOOSE i \in 1..Len(UpperLetters) : c = UpperLetters[i]]
    ELSE c
toLowerCase(text) == [i \in 1..Len(text) |-> LowerChar(text[i])]

\* the word stands in the text from position i on, letter case ignored (the
\* flag i of the regular expressions)
StandsAt(text, i, word) ==
    /\ i >= 1 /\ i + Len(word) - 1 <= Len(text)
    /\ \A k \in 1..Len(word) : LowerChar(text[i + k - 1]) = word[k]
\* String.prototype.includes
Includes(text, word) ==
    \E i \in 1..Len(text) :
        i + Len(word) - 1 <= Len(text) /\ SubSeq(text, i, i + Len(word) - 1) = word

\* const swapKeywords = ['swap', 'trade', 'exchange']
swapKeywords == { <<"s", "w", "a", "p">>, <<"t", "r", "a", "d", "e">>, <<"e", "x", "c", "h", "a", "n", "g", "e">> }
\* (eth|weth|usdc|dai|usdt|matic|usdbc)
SymbolWords ==
    { <<"e", "t", "h">>,
      <<"w", "e", "t", "h">>,
      <<"u", "s", "d", "c">>,
      <<"d", "a", "i">>,
      <<"u", "s", "d", "t">>,
      <<"m", "a", "t", "i", "c">>,
      <<"u", "s", "d", "b", "c">> }

\* \b at the gap before position i: a word character on one side only
WordBoundary(text, i) ==
    LET before == i > 1 /\ IsWordChar(text[i - 1])
        after == i <= Len(text) /\ IsWordChar(text[i])
    IN  before # after

\* a faulty variant: the symbol is looked for anywhere in the text
hasTokenSymbolsAnywhere(text) ==
    \E i \in 1..Len(text), w \in SymbolWords : StandsAt(text, i, w)

\* /\b(eth|weth|usdc|dai|usdt|matic|usdbc)\b/i.test(text)
hasTokenSymbols(text) ==
    \E i \in 1..Len(text), w \in SymbolWords :
        /\ WordBoundary(text, i)
        /\ StandsAt(text, i, w)
        /\ WordBoundary(text, i + Len(w))

\* the characters of text from i to j are n or more, all of one class
AllDigits(text, i, j) == j >= i /\ \A k \in i..j : IsDigit(text[k])
AllSpaces(text, i, j) == \A k \in i..j : IsSpace(text[k])

\* /\d+(\.\d+)?\s*(eth|weth|usdc|dai|usdt|matic|usdbc)/i.test(text): digits
\* from i to j, then a fraction up to f or none (f = j), then blanks up to
\* the symbol at p
hasAmount(text) ==
    \E i \in 1..Len(text) :
        /\ IsDigit(text[i])
        /\ \E j \in i..Len(text) :
              /\ AllDigits(text, i, j)
              /\ \E f \in j..Len(text) :
                    /\ \/ f = j
                       \/ f >= j + 2 /\ text[j + 1] = "." /\ AllDigits(text, j + 2, f)
                    /\ \E p \in (f + 1)..Len(text) :
                          /\ AllSpaces(text, f + 1, p - 1)
                          /\ \E w \in SymbolWords : StandsAt(text, p, w)

\* validate(runtime, message, state)
validate(message) ==
    IF message.content.source # "discord" THEN FALSE
    ELSE LET text == toLowerCase(message.content.text)
         IN  /\ \E keyword \in swapKeywords : Includes(text, keyword)
             /\ hasTokenSymbols(text)
             /\ hasAmount(text)

\* the messages validate is called with: a first word, an amount or none, a
\* blank or none, a word that may be a token symbol, and an end
FirstWords == { <<"s", "w", "a", "p">>,
      <<"T", "r", "a", "d", "e">>,
      <<"e", "x", "c", "h", "a", "n", "g", "e">>,
      <<"s", "e", "n", "d">> }
AmountTexts == { <<>>,
      <<"1">>,
      <<"1", ".", "5">>,
      <<"1", ".">> }
Gaps == { <<>>, <<" ">> }
SymbolTexts == { <<"e", "t", "h">>,
      <<"E", "T", "H">>,
      <<"u", "s", "d", "c">>,
      <<"b", "t", "c">>,
      <<"t", "o", "k", "e", "n", "s">>,
      <<>> }
Ends == { <<>>,
      <<"x">>,
      <<" ", "f", "o", "r", " ", "d", "a", "i">>,
      <<"x", " ", "f", "o", "r", " ", "d", "a", "i">> }
MessageTexts ==
    { k \o <<" ">> \o a \o g \o w \o e :
        k \in FirstWords, a \in AmountTexts, g \in Gaps, w \in SymbolTexts, e \in Ends }
Messages ==
    { [content |-> [text |-> t, source |-> src]] :
        t \in MessageTexts, src \in {"discord", "telegram"} }

\* no validate call was made yet
NoValidation == [called |-> FALSE]

\* the runtime calls validate on a message
Validate(message) ==
    /\ ~val.called
    /\ val' = [called |-> TRUE, message |-> message, ret |-> validate(message)]

\* the runtime has taken the answer
ValidateEnds ==
    /\ val.called
    /\ val' = NoValidation

\* the name of a registered network: the networks of the model are named
\* by their chain
NetworkName(metadata) == IF metadata.chainId = 1 THEN "Mainnet" ELSE "Base"
\* toLowerCase on the network names that occur
LowerName(name) ==
    CASE name = "Mainnet" -> "mainnet"
      [] name = "MAINNET" -> "mainnet"
      [] name = "Base" -> "base"
      [] OTHER -> name

\* what parseJSONObjectFromText makes of a generated text: an object with
\* fromToken, toToken and amount (network may be missing), or less
ParsedResponses ==
    [fromToken : {"usdc", "xyz"}, toToken : {"dai", "xyz"}, amount : Amounts,
     network : {"MAINNET", "unknown-network", ""}]
Incomplete == [incomplete |-> TRUE]
Rejected == [rejected |-> TRUE]
\* the answers of generateText, parsed; and of composeState and callback
GenerateAnswers == ParsedResponses \cup {Incomplete, Rejected}
AwaitAnswers == {"resolved", "rejected"}

\* {...parsedResponse, network: parsedResponse.network || 'mainnet'}
SwapParams(parsedResponse) ==
    [parsedResponse EXCEPT !.network = IF @ = "" THEN "mainnet" ELSE @]

\* a faulty variant: the first registered network is taken, whatever its name
FindNetworkFirst(name) ==
    LET found == { c \in Chains : networks[c] # Undefined }
    IN  IF found = {} THEN Undefined ELSE networks[CHOOSE c \in found : TRUE]

\* networks.find(n => n.name.toLowerCase() === params.network.toLowerCase())
FindNetwork(name) ==
    LET found == { c \in Chains :
                     /\ networks[c] # Undefined
                     /\ LowerName(NetworkName(networks[c])) = LowerName(name) }
    IN  IF found = {} THEN Undefined ELSE networks[CHOOSE c \in found : TRUE]

Failed(message) == [thrown |-> TRUE, message |-> message]
Passed == [thrown |-> FALSE]

\* validateSwapParams(params): what it throws, if it throws
validateSwapParams(params) ==
    LET network == FindNetwork(params.network)
    IN  IF network = Undefined THEN Failed("Network is not supported")
        ELSE LET fromToken == getToken(params.fromToken, network.chainId)
                 toToken == getToken(params.toToken, network.chainId)
             IN  IF fromToken = Undefined THEN Failed("Token not supported (from)")
                 ELSE IF toToken = Undefined THEN Failed("Token not supported (to)")
                 ELSE IF ~params.amount.valid THEN Failed("Invalid amount format")
                 ELSE Passed

\* if (!protocolConfig)
ProtocolMissing(protocolConfig) == protocolConfig = Undefined

\* the Content of the catch block, and the Content of a prepared swap
ErrorContent(message, error) ==
    [text |-> <<"Error: ", error>>, source |-> message.source]
SwapContent(message, params, network, fromToken, toToken, protocolConfig) ==
    [text |-> <<"Preparing swap on ", NetworkName(network), "Amount: ",
                formatUnits(ParseUnits(params.amount, fromToken.decimals),
                            fromToken.decimals),
                params.fromToken, "To: ", params.toToken,
                "Protocol: ", protocolConfig.version>>,
     action |-> "SWAP_TOKEN_QUOTE",
     source |-> message.source,
     metadata |-> [params |-> params, fromToken |-> fromToken, toToken |-> toToken,
                   network |-> network]]

\* the handler from the extracted params to the Content it hands to the
\* callback (lines 144-188 and 192-196); the registries answer at once
HandlerContent(message, params) ==
    LET v == validateSwapParams(params)
    IN  IF v.thrown THEN ErrorContent(message, v.message)
        ELSE LET network == FindNetwork(params.network)
                 g == GetProviderResult(instances, network.chainId)
                 protocolConfig == getProtocolConfig(network.chainId)
                 fromToken == getToken(params.fromToken, network.chainId)
                 toToken == getToken(params.toToken, network.chainId)
             IN  IF ~g.ok THEN ErrorContent(message, g.error)
                 ELSE IF ProtocolMissing(protocolConfig)
                 THEN ErrorContent(message, "No DEX protocol configured")
                 ELSE IF fromToken = Undefined \/ toToken = Undefined
                 THEN ErrorContent(message, "Token configuration not found")
                 ELSE IF ~params.amount.valid
                 THEN ErrorContent(message, "InvalidDecimalNumberError")
                 ELSE SwapContent(message, params, network, fromToken, toToken,
                                  protocolConfig)

\* EVMProvider.instances after the handler went that far
HandlerInstances(params) ==
    IF validateSwapParams(params).thrown THEN instances
    ELSE InstancesAfterGet(instances, FindNetwork(params.network).chainId)

\* no handler call in progress
NoAction ==
    [pc |-> "idle", message |-> Undefined, attempt |-> 0, params |-> Undefined,
     inTry |-> FALSE, response |-> Undefined, callbacks |-> <<>>,
     callbackFailed |-> FALSE, result |-> NoResult]

\* the handler reaches a callback with a Content, from the try block or
\* from the catch block
ToCallback(a, content, inTry) ==
    [a EXCEPT !.pc = "callback", !.response = content, !.inTry = inTry]

\* the runtime calls handler(runtime, message, state, options, callback):
\* without a state, getSwapParams composes one first
HandlerStart(message, hasState) ==
    /\ act.pc = "idle"
    /\ act' = [NoAction EXCEPT !.pc = IF hasState THEN "generate" ELSE "compose",
                               !.message = message,
                               !.attempt = IF hasState THEN 1 ELSE 0]
    /\ UNCHANGED instances

\* runtime.composeState resolves or rejects
ComposeStateReturn(answer) ==
    /\ act.pc = "compose"
    /\ act' = IF answer = "rejected"
              THEN ToCallback(act, ErrorContent(act.message, "composeState failed"), FALSE)
              ELSE [act EXCEPT !.pc = "generate", !.attempt = 1]
    /\ UNCHANGED instances

\* generateText resolves or rejects: complete params end the loop of three
\* attempts and the handler runs on to its callback
GenerateTextReturn(answer) ==
    /\ act.pc = "generate"
    /\ IF answer = Rejected
       THEN /\ act' = ToCallback(act, ErrorContent(act.message, "generateText failed"), FALSE)
            /\ UNCHANGED instances
       ELSE IF answer = Incomplete
       THEN /\ act' = IF act.attempt < 3
                      THEN [act EXCEPT !.attempt = @ + 1]
                      ELSE ToCallback(act,
                              ErrorContent(act.message, "Couldn't understand swap details"),
                              FALSE)
            /\ UNCHANGED instances
       ELSE LET params == SwapParams(answer)
                content == HandlerContent(act.message, params)
            IN  /\ act' = ToCallback([act EXCEPT !.params = params], content,
                                     "action" \in DOMAIN content)
                /\ instances' = HandlerInstances(params)

\* the callback resolves or rejects: a rejection in the try block leads to
\* the catch block and its callback, a rejection there leaves the handler
CallbackReturn(answer) ==
    /\ act.pc = "callback"
    /\ LET a == [act EXCEPT !.callbacks = Append(@, act.response),
                            !.callbackFailed = @ \/ answer = "rejected"]
       IN  act' = IF answer = "resolved"
                  THEN [a EXCEPT !.pc = "done", !.result = Return(act.response)]
                  ELSE IF act.inTry
                  THEN ToCallback(a, ErrorContent(act.message, "callback failed"), FALSE)
                  ELSE [a EXCEPT !.pc = "done", !.result = Throw("callback failed")]
    /\ UNCHANGED instances

\* the runtime has taken the Content or the error
HandlerEnds ==
    /\ act.pc = "done"
    /\ act' = NoAction
    /\ UNCHANGED instances

\* ------------------------------------------------ fan-outs of parallel reads

\* the most token contracts a chain configuration of the fan-out lists
MaxContracts == 2

\* a request is pending until its answer arrives
Fulfilled == "fulfilled"
RejectedRequest == "rejected"
RequestAnswers == {Fulfilled, RejectedRequest}

\* getTokenDetails: the four fetches, one axios.get each
DetailsFetches == <<"fetchContractInfo", "fetchHolderDistribution", "fetchDexStats", "getNativeTokenPrice">>
\* what the answer of a fetch may carry: fetchContractInfo throws on a
\* response whose status is not '1'
ResponseStatuses == {"1", "0"}

\* getTokenPrice of getTokenBalances: the oracle reads latestAnswer and
\* decimals together, the router is read once, and without both nothing
\* is read
PriceSources == {"oracle", "dex", "none"}
PriceRequests(priceSource) ==
    CASE priceSource = "oracle" -> <<"pending", "pending">>
      [] priceSource = "dex" -> <<"pending">>
      [] OTHER -> <<>>

\* a branch of a fan-out: the function it runs, where it stands, its
\* requests issued so far
DetailsBranch(fn) ==
    [fn |-> fn, stage |-> "fetch", requests |-> <<"pending">>, priceSource |-> "none"]
\* the branch of one token: balanceOf and decimals are read together
BalanceBranch(priceSource) ==
    [fn |-> "tokenBalance", stage |-> "reads", requests |-> <<"pending", "pending">>,
     priceSource |-> priceSource]

\* a faulty variant: the aggregate waits for every branch and then returns
\* whatever the branches came to
PromiseAllSettled(branches) ==
    IF \A i \in 1..Len(branches) : branches[i].stage \in {"fulfilled", "rejected"}
    THEN "fulfilled" ELSE "pending"

\* Promise.all: rejected with the first rejected branch, fulfilled once
\* every branch is fulfilled
PromiseAll(branches) ==
    IF \E i \in 1..Len(branches) : branches[i].stage = "rejected" THEN "rejected"
    ELSE IF \A i \in 1..Len(branches) : branches[i].stage = "fulfilled" THEN "fulfilled"
    ELSE "pending"

\* no fan-out in progress; late counts the answers that arrived after the
\* aggregate call was over
NoFan ==
    [pc |-> "idle", call |-> "none", branches |-> <<>>, result |-> "none", late |-> 0]

\* the aggregate call waits on its Promise.all and goes on when that settles;
\* once it has thrown or returned, later branches change nothing for it
Await(f) ==
    IF f.pc # "waiting" THEN f
    ELSE CASE PromiseAll(f.branches) = "rejected" -> [f EXCEPT !.pc = "done", !.result = "throw"]
           [] PromiseAll(f.branches) = "fulfilled" -> [f EXCEPT !.pc = "done", !.result = "return"]
           [] OTHER -> f

\* getTokenDetails(address, chainId): the four fetches are called, each
\* issues its request, and the call awaits them all
GetTokenDetailsStart ==
    /\ fan.pc = "idle"
    /\ fan' = [NoFan EXCEPT !.pc = "waiting", !.call = "getTokenDetails",
                            !.branches = [i \in 1..Len(DetailsFetches) |->
                                             DetailsBranch(DetailsFetches[i])]]

\* getTokenBalances(address): one branch per token contract of the chain
\* configuration; with no contract Promise.all([]) is fulfilled at once
GetTokenBalancesStart(contracts, priceSource) ==
    /\ fan.pc = "idle"
    /\ fan' = Await([NoFan EXCEPT !.pc = "waiting", !.call = "getTokenBalances",
                                  !.branches = [i \in 1..contracts |->
                                                   BalanceBranch(priceSource)]])

\* the branch after the r-th request of it was answered
BranchAfter(b, r, answer, status) ==
    LET requests == [b.requests EXCEPT ![r] = answer]
        c == [b EXCEPT !.requests = requests]
        allAnswered == \A k \in 1..Len(requests) : requests[k] = Fulfilled
    IN  CASE b.stage = "fetch" ->
               \* the catch block of a fetch throws the error again
               IF answer = RejectedRequest THEN [c EXCEPT !.stage = "rejected"]
               ELSE IF b.fn = "fetchContractInfo" /\ status # "1"
               THEN [c EXCEPT !.stage = "rejected"]
               ELSE [c EXCEPT !.stage = "fulfilled"]
          [] b.stage = "reads" ->
               \* the inner Promise.all of balanceOf and decimals, then
               \* getTokenPrice
               IF answer = RejectedRequest THEN [c EXCEPT !.stage = "rejected"]
               ELSE IF ~allAnswered THEN c
               ELSE IF PriceRequests(b.priceSource) = <<>>
               THEN [c EXCEPT !.stage = "fulfilled"]
               ELSE [c EXCEPT !.stage = "price",
                              !.requests = requests \o PriceRequests(b.priceSource)]
          [] b.stage = "price" ->
               \* a failing price read is caught and answered by '0'
               IF answer = RejectedRequest \/ allAnswered
               THEN [c EXCEPT !.stage = "fulfilled"]
               ELSE c
          [] OTHER -> c   \* the branch is over: the answer is dropped

\* the answer to the r-th request of the i-th branch arrives
RequestReturn(i, r, answer, status) ==
    /\ fan.pc \in {"waiting", "done"}
    /\ i \in 1..Len(fan.branches)
    /\ r \in 1..Len(fan.branches[i].requests)
    /\ fan.branches[i].requests[r] = "pending"
    /\ status = "1" \/ (fan.branches[i].fn = "fetchContractInfo" /\ answer = Fulfilled)
    /\ fan' = Await([fan EXCEPT !.branches[i] =
                                   BranchAfter(fan.branches[i], r, answer, status),
                                !.late = IF fan.pc = "done" THEN @ + 1 ELSE @])

\* the caller has taken the aggregate or the error, and every request of
\* the call has been answered: the next call is followed
FanEnds ==
    /\ fan.pc = "done"
    /\ \A i \in 1..Len(fan.branches) : \A r \in 1..Len(fan.branches[i].requests) :
          fan.branches[i].requests[r] # "pending"
    /\ fan' = NoFan

\* ------------------------------------------------------ the wallet provider

\* the chains of chainConfigs, and a chain id that is not among them
WalletChains == Chains
UnsupportedChain == 999
DefaultChainId == 1
\* what connect() finds in its environment
Environments == {"no window", "no ethereum", "wallet"}

NoWalletCall == [pc |-> "idle", chainId |-> 0, before |-> 0, result |-> NoResult]

\* new WalletProvider(chainConfigs, defaultChainId): no chain configuration
\* has a wallet client; connected tells that a connect call has succeeded,
\* got is the outcome of the last getWalletClient call of a caller
NewWalletProvider ==
    [currentChainId |-> DefaultChainId,
     walletClient |-> [c \in WalletChains |-> FALSE],
     conn |-> NoWalletCall, sw |-> NoWalletCall,
     got |-> NoResult, connected |-> FALSE]

\* getWalletClient(): the wallet client of the current chain's configuration
getWalletClient(w) ==
    IF w.walletClient[w.currentChainId]
    THEN Return("walletClient") ELSE Throw("Wallet not connected")

\* connect() up to its await: the environment is examined and the wallet
\* client is created for the current chain
ConnectStart(environment) ==
    /\ wal.conn.pc = "idle"
    /\ wal' = [wal EXCEPT !.conn =
                 CASE environment = "no window" ->
                        [@ EXCEPT !.pc = "done", !.result = Throw("Window object not found")]
                   [] environment = "no ethereum" ->
                        [@ EXCEPT !.pc = "done", !.result = Throw("No Ethereum provider found")]
                   [] OTHER -> [@ EXCEPT !.pc = "requestAddresses"]]

\* walletClient.requestAddresses() resolves or rejects; the client is stored
\* in the configuration of the chain that is current by then
ConnectReturn(answer) ==
    /\ wal.conn.pc = "requestAddresses"
    /\ wal' = IF answer = "rejected"
              THEN [wal EXCEPT !.conn.pc = "done",
                               !.conn.result = Throw("UserRejectedRequestError")]
              ELSE [wal EXCEPT !.walletClient[wal.currentChainId] = TRUE,
                               !.connected = TRUE,
                               !.conn.pc = "done",
                               !.conn.result = Return("address")]

\* the caller has taken the address or the error
ConnectEnds ==
    /\ wal.conn.pc = "done"
    /\ wal' = [wal EXCEPT !.conn = NoWalletCall]

\* a caller (SwapAction.swap, for one) calls getWalletClient()
GetWalletClient ==
    /\ wal' = [wal EXCEPT !.got = getWalletClient(wal)]
    /\ wal' # wal

\* switchChain(chainId) up to its await: getWalletClient() and
\* getChainConfig(chainId) may throw
SwitchChainStart(chainId) ==
    /\ wal.sw.pc = "idle"
    /\ LET call == [NoWalletCall EXCEPT !.chainId = chainId, !.before = wal.currentChainId]
           client == getWalletClient(wal)
       IN  wal' = [wal EXCEPT !.sw =
                     IF client.kind = "throw"
                     THEN [call EXCEPT !.pc = "done", !.result = client]
                     ELSE IF chainId \notin WalletChains
                     THEN [call EXCEPT !.pc = "done",
                                       !.result = Throw("Unsupported chain ID")]
                     ELSE [call EXCEPT !.pc = "switchChain"]]

\* walletClient.switchChain resolves or the wallet rejects the switch
SwitchChainReturn(answer) ==
    /\ wal.sw.pc = "switchChain"
    /\ wal' = IF answer = "rejected"
              THEN [wal EXCEPT !.sw.pc = "done",
                               !.sw.result = Throw("SwitchChainError")]
              ELSE [wal EXCEPT !.currentChainId = wal.sw.chainId,
                               !.sw.pc = "done",
                               !.sw.result = Return("void")]

\* the caller has taken the outcome of switchChain
SwitchChainEnds ==
    /\ wal.sw.pc = "done"
    /\ wal' = [wal EXCEPT !.sw.pc = "idle", !.sw.result = NoResult]

\* ------------------------------------------------------------ the order book

\* the most orders added in one run
MaxOrders == 3
OrderUsers == {"user1", "user2"}
OrderContracts == {"0xT1"}
OrderChain == 1

\* the Order addOrder builds; the timestamp tells the orders of one user
\* and contract apart
NewOrder(userId, contractAddress, timestamp) ==
    [userId |-> userId, contractAddress |-> contractAddress, chainId |-> OrderChain,
     timestamp |-> timestamp]

\* the file is empty or missing, no takeOrder call is in progress
NoTake == [pc |-> "idle", orderBook |-> <<>>, userOrder |-> Undefined, result |-> NoResult]
NoOrders == [file |-> <<>>, take |-> NoTake, clock |-> 1, due |-> {}]

\* loadOrderBook() and saveOrderBook(orderBook): the file is read and
\* written whole
loadOrderBook(b) == b.file
saveOrderBook(b, orderBook) == [b EXCEPT !.file = orderBook]

\* orderBook.find((order) => order.userId === userId && order.chainId === chainId)
FindOrder(orderBook, userId) ==
    LET found == { i \in 1..Len(orderBook) :
                     orderBook[i].userId = userId /\ orderBook[i].chainId = OrderChain }
    IN  IF found = {} THEN Undefined
        ELSE orderBook[CHOOSE i \in found : \A j \in found : i <= j]

\* orderBook.filter((order) => order !== userOrder)
WithoutOrder(orderBook, userOrder) == SelectSeq(orderBook, LAMBDA o : o # userOrder)

\* the orders removeOrder drops
Matches(order, userId, contractAddress) ==
    /\ order.userId = userId
    /\ order.contractAddress = contractAddress
    /\ order.chainId = OrderChain

\* addOrder(runtime, message): load, push, save, with no await between
AddOrder(userId, contractAddress) ==
    /\ book.clock <= MaxOrders
    /\ LET newOrder == NewOrder(userId, contractAddress, book.clock)
           orderBook == Append(loadOrderBook(book), newOrder)
       IN  book' = [saveOrderBook(book, orderBook) EXCEPT
                       !.clock = @ + 1, !.due = @ \cup {newOrder}]

\* removeOrder(runtime, message): load, filter, save, with no await between
RemoveOrder(userId, contractAddress) ==
    LET updatedOrderBook ==
            SelectSeq(loadOrderBook(book),
                      LAMBDA o : ~Matches(o, userId, contractAddress))
    IN  /\ book' = [saveOrderBook(book, updatedOrderBook) EXCEPT
                       !.due = { o \in @ : ~Matches(o, userId, contractAddress) }]
        /\ book' # book

\* takeOrder(runtime, message) up to its await: the order book is loaded
\* and the user's first order is sent
TakeOrderStart(userId) ==
    /\ book.take.pc = "idle"
    /\ LET orderBook == loadOrderBook(book)
           userOrder == FindOrder(orderBook, userId)
       IN  book' = [book EXCEPT !.take =
                      IF userOrder = Undefined
                      THEN [NoTake EXCEPT !.pc = "done",
                                          !.result = Return("No order found")]
                      ELSE [NoTake EXCEPT !.pc = "sendTransaction",
                                          !.orderBook = orderBook,
                                          !.userOrder = userOrder]]

\* walletClient.sendTransaction resolves or rejects: after a transaction
\* the order book loaded at the start, without the order, is saved
TakeOrderReturn(answer) ==
    /\ book.take.pc = "sendTransaction"
    /\ book' = IF answer = "rejected"
               THEN [book EXCEPT !.take.pc = "done",
                                 !.take.result = Return("Failed to execute order")]
               ELSE [saveOrderBook(book, WithoutOrder(book.take.orderBook,
                                                      book.take.userOrder))
                       EXCEPT !.take.pc = "done",
                              !.take.result = Return("Order executed successfully"),
                              !.due = @ \ {book.take.userOrder}]

\* the caller has taken the answer of takeOrder
TakeOrderEnds ==
    /\ book.take.pc = "done"
    /\ book' = [book EXCEPT !.take = NoTake]

\* ------------------------------------------------------ the transfer action

\* settings.chainConfig.nativeCurrency: address and decimals
NativeCurrencyAddress == <<"0", "x", "E", "e">>
NativeCurrencyDecimals == 2

\* what generateObject may extract: each value is a string, a number or null
Null == [tag |-> "null"]
StringValue(text) == [tag |-> "string", text |-> text]
NumberValue(n) == [tag |-> "number", n |-> n]
typeof(value) == value.tag
TokenAddressValues ==
    { StringValue(<<"0", "x", "E", "e">>), StringValue(<<"0", "x", "e", "E">>),
      StringValue(<<"0", "x", "T", "1">>), Null }
RecipientValues == { StringValue(<<"0", "x", "R">>), Null }
AmountValues == { StringValue("1.5"), StringValue("abc"), NumberValue(2), Null }
TransferContents ==
    [tokenAddress : TokenAddressValues, recipient : RecipientValues, amount : AmountValues]

\* isTransferContent(content)
isTransferContent(content) ==
    /\ typeof(content.tokenAddress) = "string"
    /\ typeof(content.recipient) = "string"
    /\ typeof(content.amount) = "string" \/ typeof(content.amount) = "number"

\* tokenAddress.toLowerCase() === settings.chainConfig.nativeCurrency.address.toLowerCase()
IsNativeTransfer(content) ==
    toLowerCase(content.tokenAddress.text) = toLowerCase(NativeCurrencyAddress)

\* content.amount.toString() as parseUnits takes it: a decimal number or not
AmountParses(amount) == amount # StringValue("abc")

\* the answers of the wallet and of the chain
SendAnswers == {"hash", "rejected"}
TransferReceiptAnswers == {"success", "reverted", "rejected"}
TransferDecimalsAnswers == {"decimals", "rejected"}

\* what the handler hands to its callback
InvalidContentReport ==
    [text |-> "Unable to process transfer request. Invalid content provided.",
     error |-> "Invalid transfer content"]
ErrorReport(message) == [text |-> "Error transferring tokens", error |-> message]
SuccessReport == [text |-> "Successfully transferred", success |-> TRUE]

\* no handler call in progress; submitted counts the transactions the wallet
\* took, path is the branch of line 147 the call went into
NoTransfer ==
    [pc |-> "idle", hasCallback |-> FALSE, content |-> Undefined, path |-> "none",
     submitted |-> 0, receipt |-> "none", callbacks |-> <<>>, result |-> NoResult]

\* callback?.(report) or if (callback) callback(report): the callbacks of
\* the model take the report and do not throw
Report(t, report) ==
    IF t.hasCallback THEN [t EXCEPT !.callbacks = Append(@, report)] ELSE t

\* the catch block: the error is reported and false is returned
Caught(t, message) ==
    [Report(t, ErrorReport(message)) EXCEPT !.pc = "done", !.result = Return(FALSE)]

\* an error outside the try block leaves the handler
Thrown(t, message) == [t EXCEPT !.pc = "done", !.result = Throw(message)]

\* handler(runtime, message, state, _options, callback?): the state is
\* composed or updated first
TransferStart(hasCallback) ==
    /\ xfer.pc = "idle"
    /\ xfer' = [NoTransfer EXCEPT !.pc = "state", !.hasCallback = hasCallback]

\* runtime.composeState or runtime.updateRecentMessageState resolves or rejects
TransferStateReturn(answer) ==
    /\ xfer.pc = "state"
    /\ xfer' = IF answer = "rejected" THEN Thrown(xfer, "composeState failed")
               ELSE [xfer EXCEPT !.pc = "generateObject"]

\* parseUnits(content.amount.toString(), decimals) before the send: the
\* wallet is asked, or the amount does not parse
BeforeSend(t) ==
    IF AmountParses(t.content.amount) THEN [t EXCEPT !.pc = "send"]
    ELSE Caught(t, "InvalidDecimalNumberError")

\* generateObject resolves or rejects; the content is validated and the
\* handler runs on to its next await
GenerateObjectReturn(answer) ==
    /\ xfer.pc = "generateObject"
    /\ xfer' =
         IF answer = Rejected THEN Thrown(xfer, "generateObject failed")
         ELSE LET t == [xfer EXCEPT !.content = answer]
              IN  IF ~isTransferContent(answer)
                  THEN [Report(t, InvalidContentReport) EXCEPT
                           !.pc = "done", !.result = Return(FALSE)]
                  ELSE IF IsNativeTransfer(answer)
                  THEN BeforeSend([t EXCEPT !.path = "native"])
                  ELSE [t EXCEPT !.path = "erc20", !.pc = "decimals"]

\* publicClient.readContract(decimals) resolves or rejects
TransferDecimalsReturn(answer) ==
    /\ xfer.pc = "decimals"
    /\ xfer' = IF answer = "rejected" THEN Caught(xfer, "ContractReadError")
               ELSE BeforeSend(xfer)

\* walletClient.sendTransaction or writeContract resolves with the hash of
\* the submitted transaction, or rejects
SendReturn(answer) ==
    /\ xfer.pc = "send"
    /\ xfer' = IF answer = "rejected" THEN Caught(xfer, "SendError")
               ELSE [xfer EXCEPT !.pc = "receipt", !.submitted = @ + 1]

\* publicClient.waitForTransactionReceipt resolves or rejects
ReceiptReturn(answer) ==
    /\ xfer.pc = "receipt"
    /\ xfer' = IF answer = "success"
               THEN [Report([xfer EXCEPT !.receipt = answer], SuccessReport) EXCEPT
                        !.pc = "done", !.result = Return(TRUE)]
               ELSE IF answer = "reverted"
               THEN Caught([xfer EXCEPT !.receipt = answer], "Transaction failed")
               ELSE Caught(xfer, "WaitForTransactionReceiptError")

\* the runtime has taken the answer or the error
TransferEnds ==
    /\ xfer.pc = "done"
    /\ xfer' = NoTransfer

\* ------------------------------------------------------------ specification

\* no prepareSwapTransaction call has returned yet
NoServed == [none |-> TRUE]

Init ==
    /\ networks = [c \in Chains |-> Undefined]
    /\ protocols = [c \in Chains |-> Undefined]
    /\ netRet = [op |-> "none"]
    /\ instances = [c \in Chains |-> Undefined]
    /\ tokens = [c \in Chains |-> NoMap]
    /\ addressMap = {}
    /\ tokRet = [op |-> "none"]
    /\ lastReg = [c \in Chains |->
                    [k \in { ToUpper(s) : s \in Symbols } |->
                        [payload |-> Undefined, replaced |-> FALSE]]]
    /\ pc = "idle"
    /\ op = "none"
    /\ args = NoArgs
    /\ locals = NoLocals
    /\ reads = <<>>
    /\ result = NoResult
    /\ netInstance = 0
    /\ tokInstance = 0
    /\ netObjects = <<>>
    /\ tokObjects = <<>>
    /\ held = [k \in Components |-> NoInstances]
    /\ registered = [tokens |-> {}, networks |-> {}, protocols |-> {}]
    /\ pf = NoPortfolio
    /\ served = NoServed
    /\ val = NoValidation
    /\ act = NoAction
    /\ fan = NoFan
    /\ wal = NewWalletProvider
    /\ book = NoOrders
    /\ xfer = NoTransfer

\* the swap pipeline, with the registry and provider operations of the
\* callers around it
SwapNext ==
    \/ \E m \in NetworkMetadatas, p \in ProtocolConfigs \cup {Undefined} :
          /\ m.chainId \in SwapChains
          /\ RegisterNetwork(m, p)
          /\ UNCHANGED <<callVars, tokVars, netRet, restVars>>
    \/ \E c \in SwapChains, e \in BOOLEAN :
          SetNetworkEnabled(c, e) /\ UNCHANGED <<callVars, tokVars, netRet, restVars>>
    \/ \E c \in SwapChains :
          GetProvider(c) /\ UNCHANGED <<callVars, tokVars, netRet, restVars>>
    \/ \E c \in SwapChains :
          ClearProvider(c) /\ UNCHANGED <<callVars, tokVars, netRet, restVars>>
    \/ \E b \in InputTokens, o \in OutputTokens, a \in Amounts, c \in SwapChains :
          GetQuoteStart(b, o, a, c) /\ UNCHANGED <<tokVars, netRet, restVars>>
    \/ \E i \in InputTokens, o \in OutputTokens, a \in Amounts, w \in Wallets,
          c \in SwapChains :
          PrepareSwapTransactionStart(i, o, a, w, c) /\ UNCHANGED <<tokVars, netRet, restVars>>
    \/ \E answer \in DecimalsAnswers :
          PrepareDecimalsReturn(answer) /\ UNCHANGED <<tokVars, netRet, restVars>>
    \/ \E answer \in DecimalsAnswers :
          QuoteDecimalsReturn(answer) /\ UNCHANGED <<tokVars, netRet, restVars>>
    \/ \E answer \in QuoteAnswers, now \in NowValues :
          QuoteReadReturn(answer, now) /\ UNCHANGED <<tokVars, netRet, restVars>>
    \/ \E h \in Hashes, c \in SwapChains :
          ExecuteSwapStart(h, c) /\ UNCHANGED <<tokVars, netRet, restVars>>
    \/ \E answer \in ReceiptAnswers :
          ExecuteSwapReturn(answer) /\ UNCHANGED <<tokVars, netRet, restVars>>
    \/ \E h \in Hashes, t \in {"buy", "sell"} :
          LegacyExecuteSwapStart(h, t) /\ UNCHANGED <<tokVars, netRet, restVars>>
    \/ \E answer \in ReceiptAnswers :
          LegacyExecuteSwapReturn(answer) /\ UNCHANGED <<tokVars, netRet, restVars>>
    \/ CallEnds /\ UNCHANGED <<tokVars, netRet, restVars>>

SwapSpec == Init /\ [][SwapNext]_vars

\* the token registry under any sequence of its operations
TokenNext ==
    \/ \E t \in TokenDatas :
          RegisterToken(t) /\ UNCHANGED <<regVars, netRet, callVars, restVars>>
    \/ \E n \in 0..MaxBatch : \E list \in [1..n -> BatchTokens] :
          RegisterTokens(list) /\ UNCHANGED <<regVars, netRet, callVars, restVars>>
    \/ \E s \in Symbols, c \in Chains :
          GetToken(s, c) /\ UNCHANGED <<regVars, netRet, callVars, restVars>>
    \/ \E c \in Chains :
          GetNetworkTokens(c) /\ UNCHANGED <<regVars, netRet, callVars, restVars>>
    \/ \E s \in Symbols, c \in Chains :
          RemoveToken(s, c) /\ UNCHANGED <<regVars, netRet, callVars, restVars>>

TokenSpec == Init /\ [][TokenNext]_vars

\* getNetwork(chainId) and getProtocolConfig(chainId) as calls of a caller
GetNetwork(chainId) ==
    /\ netRet' = [op |-> "getNetwork", chainId |-> chainId, ret |-> getNetwork(chainId)]
    /\ UNCHANGED regVars

GetProtocolConfig(chainId) ==
    /\ netRet' = [op |-> "getProtocolConfig", chainId |-> chainId,
                  ret |-> getProtocolConfig(chainId)]
    /\ UNCHANGED regVars

\* the network registry and the provider cache under any sequence of their
\* operations, each leaving in netRet what it was called with and returned
NetNext ==
    \/ \E m \in NetworkMetadatas, p \in ProtocolConfigs \cup {Undefined} :
          /\ RegisterNetwork(m, p)
          /\ netRet' = [op |-> "registerNetwork", chainId |-> m.chainId,
                        metadata |-> m, protocolConfig |-> p]
          /\ UNCHANGED <<callVars, tokVars, restVars>>
    \/ \E c \in Chains :
          GetNetwork(c) /\ UNCHANGED <<callVars, tokVars, restVars>>
    \/ \E c \in Chains :
          GetProtocolConfig(c) /\ UNCHANGED <<callVars, tokVars, restVars>>
    \/ \E c \in Chains, e \in BOOLEAN :
          /\ SetNetworkEnabled(c, e)
          /\ netRet' = [op |-> "setNetworkEnabled", chainId |-> c, enabled |-> e,
                        ret |-> SetNetworkEnabledResult(c)]
          /\ UNCHANGED <<callVars, tokVars, restVars>>
    \/ \E c \in Chains :
          /\ GetProvider(c)
          /\ netRet' = [op |-> "getProvider", chainId |-> c,
                        ret |-> GetProviderResult(instances, c)]
          /\ UNCHANGED <<callVars, tokVars, restVars>>
    \/ \E c \in Chains :
          /\ ClearProvider(c)
          /\ netRet' = [op |-> "clearProvider", chainId |-> c]
          /\ UNCHANGED <<callVars, tokVars, restVars>>

NetSpec == Init /\ [][NetNext]_vars

\* the components ask for the registries and use what they were given
InstanceNext ==
    \/ \E k \in Components :
          /\ NetworkRegistryGetInstance(k)
          /\ UNCHANGED <<laterVars, regVars, netRet, tokVars, callVars, registered, pf>>
    \/ \E k \in Components :
          /\ TokenRegistryGetInstance(k)
          /\ UNCHANGED <<laterVars, regVars, netRet, tokVars, callVars, registered, pf>>
    \/ \E k \in Components, m \in NetworkMetadatas :
          /\ RegisterNetworkThrough(k, m)
          /\ UNCHANGED <<laterVars, regVars, netRet, tokVars, callVars, registered, pf>>
    \/ \E k \in Components, t \in BatchTokens :
          /\ RegisterTokenThrough(k, t)
          /\ UNCHANGED <<laterVars, regVars, netRet, tokVars, callVars, registered, pf>>

InstanceSpec == Init /\ [][InstanceNext]_vars

\* the payloads the callers of the two registries register side by side
RegistryNetworks ==
    { m \in NetworkMetadatas :
        m.chainId \in SwapChains /\ (m.enabled <=> m.nativeCurrency.address # NoAddress) }
RegistryProtocols == { p \in ProtocolConfigs : p.defaultFeeBps = 30 }

\* the history after registerToken(metadata)
RegisteredToken(metadata) ==
    [registered EXCEPT !.tokens = @ \cup {metadata}]
\* the history after registerNetwork(metadata, protocolConfig?)
RegisteredNetwork(metadata, protocolConfig) ==
    [registered EXCEPT
        !.networks = @ \cup {metadata},
        !.protocols = @ \cup (IF protocolConfig # Undefined
                              THEN {[chainId |-> metadata.chainId,
                                     protocolConfig |-> protocolConfig]}
                              ELSE {})]

\* asynchronous callers register, remove and look up entries of both
\* registries: no registry method awaits, so each call runs from its first
\* line to its return between two steps of the other callers, and the calls
\* of all callers interleave in any order
RegistryNext ==
    \/ \E t \in BatchTokens :
          /\ RegisterToken(t)
          /\ registered' = RegisteredToken(t)
          /\ UNCHANGED <<laterVars, regVars, netRet, callVars, instVars, pf>>
    \/ \E sym \in Symbols, c \in Chains :
          /\ RemoveToken(sym, c)
          /\ UNCHANGED <<laterVars, regVars, netRet, callVars, instVars, registered, pf>>
    \/ \E sym \in Symbols, c \in Chains :
          /\ GetToken(sym, c)
          /\ UNCHANGED <<laterVars, regVars, netRet, callVars, instVars, registered, pf>>
    \/ \E m \in RegistryNetworks, p \in RegistryProtocols \cup {Undefined} :
          /\ RegisterNetwork(m, p)
          /\ netRet' = [op |-> "registerNetwork", chainId |-> m.chainId,
                        metadata |-> m, protocolConfig |-> p]
          /\ registered' = RegisteredNetwork(m, p)
          /\ UNCHANGED <<laterVars, tokVars, callVars, instVars, pf>>
    \/ \E c \in Chains :
          /\ GetNetwork(c)
          /\ UNCHANGED <<laterVars, tokVars, callVars, instVars, registered, pf>>
    \/ \E c \in Chains :
          /\ GetProtocolConfig(c)
          /\ UNCHANGED <<laterVars, tokVars, callVars, instVars, registered, pf>>

RegistrySpec == Init /\ [][RegistryNext]_vars

\* the portfolio reads of the aggregators
PortfolioNext ==
    \/ \E impl \in Aggregators, config \in ChainConfigs :
          /\ PortfolioStart(impl, config)
          /\ UNCHANGED <<laterVars, regVars, netRet, tokVars, callVars, instVars, registered>>
    \/ \E answer \in BalanceAnswers :
          /\ NativeBalanceReturn(answer)
          /\ UNCHANGED <<laterVars, regVars, netRet, tokVars, callVars, instVars, registered>>
    \/ \E i \in 1..Len(pf.entries) : \E a \in TaskAnswers(pf.impl) :
          /\ TokenTaskReturn(i, a)
          /\ UNCHANGED <<laterVars, regVars, netRet, tokVars, callVars, instVars, registered>>
    \/ \E answer \in PriceAnswers :
          /\ NativePriceReturn(answer)
          /\ UNCHANGED <<laterVars, regVars, netRet, tokVars, callVars, instVars, registered>>
    \/ /\ PortfolioEnds
       /\ UNCHANGED <<laterVars, regVars, netRet, tokVars, callVars, instVars, registered>>

PortfolioSpec == Init /\ [][PortfolioNext]_vars

\* the answer to a request of the fan-out arrives
FanAnswered ==
    \E i \in 1..Len(DetailsFetches), r \in 1..4, answer \in RequestAnswers, status \in ResponseStatuses :
        /\ RequestReturn(i, r, answer, status)
        /\ UNCHANGED <<regVars, netRet, tokVars, callVars, instVars, registered, pf, served, val, act, wal, book, xfer>>

\* the fan-outs, one call at a time
FanNext ==
    \/ /\ GetTokenDetailsStart
       /\ UNCHANGED <<regVars, netRet, tokVars, callVars, instVars, registered, pf, served, val, act, wal, book, xfer>>
    \/ \E contracts \in 0..MaxContracts, priceSource \in PriceSources :
          /\ GetTokenBalancesStart(contracts, priceSource)
          /\ UNCHANGED <<regVars, netRet, tokVars, callVars, instVars, registered, pf, served, val, act, wal, book, xfer>>
    \/ \E i \in 1..Len(DetailsFetches), r \in 1..4, answer \in RequestAnswers, status \in ResponseStatuses :
          /\ RequestReturn(i, r, answer, status)
          /\ UNCHANGED <<regVars, netRet, tokVars, callVars, instVars, registered, pf, served, val, act, wal, book, xfer>>
    \/ /\ FanEnds
       /\ UNCHANGED <<regVars, netRet, tokVars, callVars, instVars, registered, pf, served, val, act, wal, book, xfer>>

\* every request issued is answered in the end, by a response or an error
FanSpec == Init /\ [][FanNext]_vars /\ WF_vars(FanAnswered)

\* the wallet provider and its callers: a connect and a switchChain call may
\* be in progress together
WalletNext ==
    \/ \E environment \in Environments :
          /\ ConnectStart(environment)
          /\ UNCHANGED <<regVars, netRet, tokVars, callVars, instVars, registered, pf, served, val, act, fan, book, xfer>>
    \/ \E answer \in AwaitAnswers :
          /\ ConnectReturn(answer)
          /\ UNCHANGED <<regVars, netRet, tokVars, callVars, instVars, registered, pf, served, val, act, fan, book, xfer>>
    \/ /\ ConnectEnds
       /\ UNCHANGED <<regVars, netRet, tokVars, callVars, instVars, registered, pf, served, val, act, fan, book, xfer>>
    \/ /\ GetWalletClient
       /\ UNCHANGED <<regVars, netRet, tokVars, callVars, instVars, registered, pf, served, val, act, fan, book, xfer>>
    \/ \E chainId \in WalletChains \cup {UnsupportedChain} :
          /\ SwitchChainStart(chainId)
          /\ UNCHANGED <<regVars, netRet, tokVars, callVars, instVars, registered, pf, served, val, act, fan, book, xfer>>
    \/ \E answer \in AwaitAnswers :
          /\ SwitchChainReturn(answer)
          /\ UNCHANGED <<regVars, netRet, tokVars, callVars, instVars, registered, pf, served, val, act, fan, book, xfer>>
    \/ /\ SwitchChainEnds
       /\ UNCHANGED <<regVars, netRet, tokVars, callVars, instVars, registered, pf, served, val, act, fan, book, xfer>>

WalletSpec == Init /\ [][WalletNext]_vars

\* the order book under calls of addOrder, removeOrder and takeOrder; the
\* first two run while a takeOrder call awaits its transaction
OrderNext ==
    \/ \E userId \in OrderUsers, contractAddress \in OrderContracts :
          /\ AddOrder(userId, contractAddress)
          /\ UNCHANGED <<regVars, netRet, tokVars, callVars, instVars, registered, pf, served, val, act, fan, wal, xfer>>
    \/ \E userId \in OrderUsers, contractAddress \in OrderContracts :
          /\ RemoveOrder(userId, contractAddress)
          /\ UNCHANGED <<regVars, netRet, tokVars, callVars, instVars, registered, pf, served, val, act, fan, wal, xfer>>
    \/ \E userId \in OrderUsers :
          /\ TakeOrderStart(userId)
          /\ UNCHANGED <<regVars, netRet, tokVars, callVars, instVars, registered, pf, served, val, act, fan, wal, xfer>>
    \/ \E answer \in AwaitAnswers :
          /\ TakeOrderReturn(answer)
          /\ UNCHANGED <<regVars, netRet, tokVars, callVars, instVars, registered, pf, served, val, act, fan, wal, xfer>>
    \/ /\ TakeOrderEnds
       /\ UNCHANGED <<regVars, netRet, tokVars, callVars, instVars, registered, pf, served, val, act, fan, wal, xfer>>

OrderSpec == Init /\ [][OrderNext]_vars

\* the transfer handler, one call at a time
TransferNext ==
    \/ \E hasCallback \in BOOLEAN :
          /\ TransferStart(hasCallback)
          /\ UNCHANGED <<regVars, netRet, tokVars, callVars, instVars, registered, pf, served, val, act, fan, wal, book>>
    \/ \E answer \in AwaitAnswers :
          /\ TransferStateReturn(answer)
          /\ UNCHANGED <<regVars, netRet, tokVars, callVars, instVars, registered, pf, served, val, act, fan, wal, book>>
    \/ \E answer \in TransferContents \cup {Rejected} :
          /\ GenerateObjectReturn(answer)
          /\ UNCHANGED <<regVars, netRet, tokVars, callVars, instVars, registered, pf, served, val, act, fan, wal, book>>
    \/ \E answer \in TransferDecimalsAnswers :
          /\ TransferDecimalsReturn(answer)
          /\ UNCHANGED <<regVars, netRet, tokVars, callVars, instVars, registered, pf, served, val, act, fan, wal, book>>
    \/ \E answer \in SendAnswers :
          /\ SendReturn(answer)
          /\ UNCHANGED <<regVars, netRet, tokVars, callVars, instVars, registered, pf, served, val, act, fan, wal, book>>
    \/ \E answer \in TransferReceiptAnswers :
          /\ ReceiptReturn(answer)
          /\ UNCHANGED <<regVars, netRet, tokVars, callVars, instVars, registered, pf, served, val, act, fan, wal, book>>
    \/ /\ TransferEnds
       /\ UNCHANGED <<regVars, netRet, tokVars, callVars, instVars, registered, pf, served, val, act, fan, wal, book>>

TransferSpec == Init /\ [][TransferNext]_vars

\* the caller has taken the result of a call; what a returned
\* prepareSwapTransaction was asked and was quoted is remembered
CallEndsRemembered ==
    /\ CallEnds
    /\ served' = IF op = "prepareSwapTransaction" /\ result.kind = "return"
                 THEN [inputToken |-> args.inputToken, outputToken |-> args.outputToken,
                       amount |-> args.amount.text, chainId |-> args.chainId,
                       amountOut |-> locals.quote.amountOut]
                 ELSE served

\* prepareSwapTransaction called again and again on networks registered
\* as enabled with a protocol configuration
BuildNext ==
    \/ \E m \in NetworkMetadatas, p \in ProtocolConfigs :
          /\ m.chainId \in SwapChains /\ m.enabled
          /\ RegisterNetwork(m, p)
          /\ UNCHANGED <<callVars, tokVars, netRet, restVars>>
    \/ \E i \in InputTokens, o \in OutputTokens, a \in Amounts, w \in Wallets,
          c \in SwapChains :
          PrepareSwapTransactionStart(i, o, a, w, c) /\ UNCHANGED <<tokVars, netRet, restVars>>
    \/ \E answer \in DecimalsAnswers :
          PrepareDecimalsReturn(answer) /\ UNCHANGED <<tokVars, netRet, restVars>>
    \/ \E answer \in DecimalsAnswers :
          QuoteDecimalsReturn(answer) /\ UNCHANGED <<tokVars, netRet, restVars>>
    \/ \E answer \in QuoteAnswers, now \in NowValues :
          QuoteReadReturn(answer, now) /\ UNCHANGED <<tokVars, netRet, restVars>>
    \/ /\ CallEndsRemembered
       /\ UNCHANGED <<tokVars, netRet, instVars, registered, pf, val, act, lastVars>>

BuildSpec == Init /\ [][BuildNext]_vars

\* the swap action's validate on any message
ValidateNext ==
    \/ \E message \in Messages :
          /\ Validate(message)
          /\ UNCHANGED <<regVars, netRet, tokVars, callVars, instVars, registered, pf, served, act, lastVars>>
    \/ /\ ValidateEnds
       /\ UNCHANGED <<regVars, netRet, tokVars, callVars, instVars, registered, pf, served, act, lastVars>>

ValidateSpec == Init /\ [][ValidateNext]_vars

\* the registrations the swap action is exercised on
HandlerNetworks == { m \in NetworkMetadatas : m.chainId \in SwapChains /\ m.nativeCurrency.address = "0xaa" }
HandlerProtocols == { p \in ProtocolConfigs : p.version = "v3" /\ p.defaultFeeBps = 30 } \cup {Undefined}
HandlerTokens == { t \in TokenDatas : t.chainId \in SwapChains /\ ((t.symbol = "usdc" /\ t.address = "0xA0b8") \/ (t.symbol = "dai" /\ t.address = "0x6B17")) }
HandlerMessages == { [source |-> "discord"] }

\* the swap action's handler, with the registrations made between its calls
HandlerNext ==
    \/ \E m \in HandlerNetworks, p \in HandlerProtocols :
          /\ act.pc = "idle"
          /\ RegisterNetwork(m, p)
          /\ UNCHANGED <<callVars, tokVars, netRet, instVars, registered, pf, served, val, act, lastVars>>
    \/ \E t \in HandlerTokens :
          /\ act.pc = "idle"
          /\ RegisterToken(t)
          /\ UNCHANGED <<regVars, callVars, netRet, instVars, registered, pf, served, val, act, lastVars>>
    \/ \E c \in SwapChains :
          /\ act.pc = "idle"
          /\ ClearProvider(c)
          /\ UNCHANGED <<callVars, tokVars, netRet, instVars, registered, pf, served, val, act, lastVars>>
    \/ \E message \in HandlerMessages, hasState \in BOOLEAN :
          /\ HandlerStart(message, hasState)
          /\ UNCHANGED <<networks, protocols, callVars, tokVars, netRet, instVars, registered, pf, served, val, lastVars>>
    \/ \E answer \in AwaitAnswers :
          /\ ComposeStateReturn(answer)
          /\ UNCHANGED <<networks, protocols, callVars, tokVars, netRet, instVars, registered, pf, served, val, lastVars>>
    \/ \E answer \in GenerateAnswers :
          /\ GenerateTextReturn(answer)
          /\ UNCHANGED <<networks, protocols, callVars, tokVars, netRet, instVars, registered, pf, served, val, lastVars>>
    \/ \E answer \in AwaitAnswers :
          /\ CallbackReturn(answer)
          /\ UNCHANGED <<networks, protocols, callVars, tokVars, netRet, instVars, registered, pf, served, val, lastVars>>
    \/ /\ HandlerEnds
       /\ UNCHANGED <<networks, protocols, callVars, tokVars, netRet, instVars, registered, pf, served, val, lastVars>>

HandlerSpec == Init /\ [][HandlerNext]_vars

Next == SwapNext \/ TokenNext \/ NetNext \/ InstanceNext \/ RegistryNext \/ PortfolioNext \/ BuildNext
            \/ ValidateNext \/ HandlerNext \/ FanNext \/ WalletNext
            \/ OrderNext \/ TransferNext

Spec == Init /\ [][Next]_vars

\* ------------------------------------------------------------------ claims

\* the call has finished and its result has not been taken yet
Finished(o) == pc = "done" /\ op = o
Returned(o) == Finished(o) /\ result.kind = "return"
\* the remote operation the call issued last
LastRead == reads[Len(reads)]
\* a token address is the native-currency address of the build
NativeOfBuild(token) ==
    /\ locals.nativeToken.address # NoAddress
    /\ ToLower(token) = ToLower(locals.nativeToken.address)
\* the minimum output a built transaction carries
MinOutOf(tx) ==
    IF "amountOutMinimum" \in DOMAIN tx.data.args
    THEN tx.data.args.amountOutMinimum
    ELSE tx.data.args.amountOutMin

\* C1: executeSwap returns txHash if and only if the awaited receipt has
\* status 'success'; a receipt of any other status makes it throw the
\* transaction-failed error carrying that status, and no hash is returned.
C1_ExecuteSwapHashIffSuccess ==
    (pc = "done" /\ op \in {"executeSwap", "legacyExecuteSwap"}) =>
        LET received == Len(reads) = 1 /\ LastRead.answer.ok
        IN  /\ (result.kind = "return") <=>
                    (received /\ LastRead.answer.status = "success")
            /\ result.kind = "return" => result.value = args.txHash
            /\ (received /\ LastRead.answer.status # "success") =>
                    result = [kind |-> "throw", error |-> "Transaction failed",
                              status |-> LastRead.answer.status]

\* C1 witness: executeSwap has thrown on a receipt whose status is 'failed'
C1_Witness ==
    /\ Finished("executeSwap")
    /\ Len(reads) = 1 /\ LastRead.answer.ok /\ LastRead.answer.status = "failed"
    /\ result.kind = "throw"

\* C2: the minimum output of a built transaction is
\* floor(amountOut * 9950 / 10000) of the quoted amountOut (1_000_000 gives
\* 995000), hence never above amountOut.  With k = amountOut - minOut the
\* floor is stated as 200 * (k - 1) < amountOut <= 200 * k.
C2_MinOutIsFloor ==
    Returned("prepareSwapTransaction") =>
        LET a == locals.quote.amountOut
            m == MinOutOf(result.value)
        IN  /\ 200 * (a - m - 1) < a
            /\ a <= 200 * (a - m)
            /\ m <= a
            /\ a = 1000000 => m = 995000

\* C2 witness: a transaction built on a quote of 201, whose exact minimum
\* 199.995 is cut to 199
C2_Witness ==
    /\ Returned("prepareSwapTransaction")
    /\ locals.quote.amountOut = 201
    /\ MinOutOf(result.value) = 199

\* C3: the encoded function name is the one the table gives for (protocol
\* version, input is native, output is native); every version other than
\* 'v3' takes the v2 names.
C3_FunctionNameTable ==
    Returned("prepareSwapTransaction") =>
        LET v3 == locals.protocolConfig.version = "v3"
            nativeIn == NativeOfBuild(args.inputToken)
            nativeOut == NativeOfBuild(args.outputToken)
            name == result.value.data.functionName
        IN  /\ (v3 /\ nativeIn) => name = "exactInputSingleETH"
            /\ (v3 /\ ~nativeIn) => name = "exactInputSingle"
            /\ (~v3 /\ nativeIn) => name = "swapExactETHForTokens"
            /\ (~v3 /\ ~nativeIn /\ nativeOut) => name = "swapExactTokensForETH"
            /\ (~v3 /\ ~nativeIn /\ ~nativeOut) => name = "swapExactTokensForTokens"

\* C3 witness: a build on a version that is neither v2 nor v3, token in and
\* native out
C3_Witness ==
    /\ Returned("prepareSwapTransaction")
    /\ locals.protocolConfig.version = "v1"
    /\ ~NativeOfBuild(args.inputToken)
    /\ NativeOfBuild(args.outputToken)
    /\ result.value.data.functionName = "swapExactTokensForETH"

\* C4: a built transaction goes to the router address of the protocol
\* configuration of the build, and has a value field exactly when the input
\* token is the native-currency address up to letter case; the value is the
\* amountIn of the quote of the build.
C4_ToRouterValueIffNative ==
    Returned("prepareSwapTransaction") =>
        LET tx == result.value
        IN  /\ tx.to = locals.protocolConfig.routerAddress
            /\ ("value" \in DOMAIN tx) <=> NativeOfBuild(args.inputToken)
            /\ "value" \in DOMAIN tx => tx.value = locals.quote.amountIn

\* C4 witness: a value-bearing transaction whose input token is written in
\* another letter case than the registered native address
C4_Witness ==
    /\ Returned("prepareSwapTransaction")
    /\ "value" \in DOMAIN result.value
    /\ args.inputToken # locals.nativeToken.address
    /\ result.value.value = locals.quote.amountIn

\* C5: every built transaction, on every protocol version, carries in its
\* encoded call a deadline equal to the clock of the build in seconds plus
\* 1200, which is later than that clock.
C5_DeadlineOnEveryVersion ==
    Returned("prepareSwapTransaction") =>
        LET callArgs == result.value.data.args
        IN  /\ "deadline" \in DOMAIN callArgs
            /\ callArgs.deadline = (locals.now \div 1000) + 1200
            /\ callArgs.deadline > locals.now \div 1000

\* a build whose getQuote has issued its quoter / router read
QuoteReadIssued ==
    /\ op \in {"getQuote", "prepareSwapTransaction"}
    /\ locals.amountIn # -1

\* C6: on a protocol version other than 'v3', getQuote reads getAmountsOut
\* on the router with (amountIn, [baseToken, outputToken]), a path of length
\* 2, and returns the second element of the answer as amountOut together
\* with route = [baseToken, outputToken].
C6_V2QuoteRead ==
    (QuoteReadIssued /\ locals.qConfig.version # "v3") =>
        /\ LastRead.fn = "getAmountsOut"
        /\ LastRead.address = locals.qConfig.routerAddress
        /\ LastRead.args = <<locals.amountIn, <<args.inputToken, args.outputToken>>>>
        /\ Len(LastRead.args[2]) = 2
        /\ locals.quote # Undefined =>
              /\ locals.quote.amountOut = LastRead.answer.value[2]
              /\ locals.quote.route = <<args.inputToken, args.outputToken>>
        /\ Returned("getQuote") => result.value = locals.quote

\* C6 witness: getQuote has returned on version 'v1' with the second
\* element of an answer whose elements differ
C6_Witness ==
    /\ Returned("getQuote")
    /\ locals.qConfig.version = "v1"
    /\ LastRead.answer.value[1] # LastRead.answer.value[2]
    /\ result.value.amountOut = LastRead.answer.value[2]

\* C7: a transaction built on a v3 configuration follows a quoter read, and
\* the fee of that read and the fee of the encoded call are both
\* defaultFeeBps * 100 of the configuration: the same fee tier.
C7_SameFeeTier ==
    (Returned("prepareSwapTransaction") /\ locals.protocolConfig.version = "v3") =>
        /\ LastRead.fn = "quoteExactInputSingle"
        /\ LastRead.args.fee = result.value.data.args.fee
        /\ LastRead.args.fee = locals.protocolConfig.defaultFeeBps * 100

\* the errors the configuration lookups raise: the provider lookup of a
\* chain that is not registered or is disabled, and the two checks on the
\* protocol configuration
ConfigurationErrors ==
    { "Network not found for chain ID", "Network is currently disabled",
      "Protocol configuration not found",
      "Protocol or network configuration not found" }

\* C8: a getQuote begun on a chain without protocol configuration, and a
\* prepareSwapTransaction begun on a chain without protocol configuration
\* or without network metadata, ends at once in a configuration error: no
\* remote read was issued and nothing is returned.
C8_ConfigurationErrorFirst ==
    LET unconfigured ==
            \/ op = "getQuote" /\ ~locals.hadConfig
            \/ op = "prepareSwapTransaction"
                  /\ ~(locals.hadConfig /\ locals.hadNetwork)
    IN  unconfigured =>
            /\ pc = "done"
            /\ reads = <<>>
            /\ result.kind = "throw"
            /\ result.error \in ConfigurationErrors

\* C8 witness: prepareSwapTransaction on a registered network without
\* protocol configuration has thrown the error of its own check
C8_Witness ==
    /\ Finished("prepareSwapTransaction")
    /\ locals.hadNetwork /\ ~locals.hadConfig
    /\ reads = <<>>
    /\ result = Throw("Protocol or network configuration not found")

\* the remote reads of the call that were rejected
FailedReads ==
    { i \in 1..Len(reads) :
        reads[i].answer # Pending /\ ~reads[i].answer.ok }

\* C9: once a remote read of getQuote or prepareSwapTransaction is rejected
\* the call is over and has thrown the error of that read; what either
\* returns was built from answered reads only, and its amountOut is the one
\* the quoter / router answered.
C9_FailedReadPropagates ==
    op \in {"getQuote", "prepareSwapTransaction"} =>
        /\ \A i \in FailedReads :
              /\ i = Len(reads)
              /\ pc = "done"
              /\ result = Throw(reads[i].answer.error)
        /\ (pc = "done" /\ result.kind = "return") =>
              /\ FailedReads = {}
              /\ reads # <<>>
              /\ locals.quote.amountOut =
                    QuoteAmountOut(locals.qConfig, LastRead.answer.value)

\* C9 witness: prepareSwapTransaction has thrown the error of the rejected
\* quoter / router read, the decimals reads before it answered
C9_Witness ==
    /\ Finished("prepareSwapTransaction")
    /\ Len(reads) >= 2
    /\ LastRead.fn \in {"quoteExactInputSingle", "getAmountsOut"}
    /\ FailedReads = {Len(reads)}
    /\ result = Throw("ContractReadError")

\* C10: getToken(symbol, chainId) returns the payload of the most recent
\* registerToken for (chainId, upper-cased symbol) that no removeToken has
\* followed, whole and unmerged; without one it returns undefined.
C10_GetTokenMostRecent ==
    /\ \A c \in Chains, sym \in Symbols :
          getToken(sym, c) = lastReg[c][ToUpper(sym)].payload
    /\ tokRet.op = "getToken" =>
          tokRet.ret = lastReg[tokRet.chainId][ToUpper(tokRet.symbol)].payload

\* C10 witness: getToken has returned a payload that replaced another one
\* registered under the same key
C10_Witness ==
    /\ tokRet.op = "getToken"
    /\ tokRet.ret # Undefined
    /\ lastReg[tokRet.chainId][ToUpper(tokRet.symbol)].replaced
    /\ tokRet.ret.symbol # tokRet.symbol

\* two symbols that differ in letter case only
SameSymbol(s1, s2) == ToUpper(s1) = ToUpper(s2)

\* C11: for every chainId and every two symbols that differ only in letter
\* case, getToken answers the same, whichever casing was registered; and
\* once removeToken has returned for one casing, getToken finds nothing
\* under any casing of that symbol.
C11_SymbolCaseInsensitive ==
    /\ \A c \in Chains, s1 \in Symbols, s2 \in Symbols :
          SameSymbol(s1, s2) => getToken(s1, c) = getToken(s2, c)
    /\ tokRet.op = "getToken" =>
          \A s2 \in Symbols :
              SameSymbol(tokRet.symbol, s2) => getToken(s2, tokRet.chainId) = tokRet.ret
    /\ tokRet.op = "removeToken" =>
          \A s2 \in Symbols :
              SameSymbol(tokRet.symbol, s2) => getToken(s2, tokRet.chainId) = Undefined

\* C11 witness: getToken, asked in one casing, has returned a payload that
\* was registered in another
C11_Witness ==
    /\ tokRet.op = "getToken"
    /\ tokRet.ret # Undefined
    /\ tokRet.symbol = "USDC"
    /\ tokRet.ret.symbol = "usdc"

\* the entries of a token list without the payload p
Without(list, p) == SelectSeq(list, LAMBDA e : e # p)

\* C12: removeToken(symbol, chainId) returns true exactly when the key had
\* an entry, and getToken then finds nothing under the key; when the key had
\* none it returns false and no getToken or getNetworkTokens answer changes.
\* In both cases the other keys and the other chains answer as before, and
\* the chain's token list loses the removed payload only.
C12_RemoveTokenFrame ==
    [][\A s \in Symbols, c \in Chains :
        (tokRet'.op = "removeToken" /\ tokRet'.symbol = s /\ tokRet'.chainId = c) =>
            LET before == getToken(s, c)
                existed == before # Undefined
            IN  /\ tokRet'.ret = existed
                /\ getToken(s, c)' = Undefined
                /\ \A c2 \in Chains, s2 \in Symbols :
                      (c2 # c \/ ~SameSymbol(s2, s)) =>
                          getToken(s2, c2)' = getToken(s2, c2)
                /\ \A c2 \in Chains \ {c} :
                      getNetworkTokens(c2)' = getNetworkTokens(c2)
                /\ getNetworkTokens(c)' = Without(getNetworkTokens(c), before)
                /\ ~existed => getNetworkTokens(c)' = getNetworkTokens(c)
     ]_vars

\* C12 witness: removeToken has returned true on a chain that keeps another
\* entry, while another chain holds an entry too
C12_Witness ==
    /\ tokRet.op = "removeToken"
    /\ tokRet.ret = TRUE
    /\ Len(getNetworkTokens(tokRet.chainId)) >= 1
    /\ \E t \in TokenDatas : t.chainId # tokRet.chainId /\ getToken(t.symbol, t.chainId) # Undefined

\* C13: right after registerNetwork(metadata, protocolConfig?) for chain c,
\* and so for every lookup until the next write, getNetwork(c) is that
\* metadata and getProtocolConfig(c) is the protocolConfig of that call,
\* not-found when the call passed none, whatever c held before.
C13_RegisterNetworkAlone ==
    [][\A m \in NetworkMetadatas, p \in ProtocolConfigs \cup {Undefined} :
        netRet' = [op |-> "registerNetwork", chainId |-> m.chainId,
                   metadata |-> m, protocolConfig |-> p]
        =>  /\ getNetwork(m.chainId)' = m
            /\ getProtocolConfig(m.chainId)' = p
     ]_vars

\* C14: setNetworkEnabled(chainId, enabled) on a registered chain returns
\* true and sets the flag of that network, nothing else of it; on an unknown
\* chain it returns false and the chain stays unknown.  Either way no other
\* network and no protocol configuration changes.
C14_SetNetworkEnabled ==
    [][\A c \in Chains, e \in BOOLEAN :
        (netRet'.op = "setNetworkEnabled" /\ netRet'.chainId = c /\ netRet'.enabled = e)
        =>  /\ netRet'.ret = (getNetwork(c) # Undefined)
            /\ getNetwork(c) # Undefined =>
                  getNetwork(c)' = [getNetwork(c) EXCEPT !.enabled = e]
            /\ getNetwork(c) = Undefined => getNetwork(c)' = Undefined
            /\ \A c2 \in Chains \ {c} : getNetwork(c2)' = getNetwork(c2)
            /\ \A c2 \in Chains : getProtocolConfig(c2)' = getProtocolConfig(c2)
     ]_vars

\* C14 witness: setNetworkEnabled has returned true and has turned the flag
\* of a registered network, next to another network and a protocol
\* configuration
C14_Witness ==
    /\ netRet.op = "setNetworkEnabled"
    /\ netRet.ret = TRUE
    /\ netRet.enabled = FALSE
    /\ getNetwork(netRet.chainId).enabled = FALSE
    /\ \E c2 \in Chains \ {netRet.chainId} :
          getNetwork(c2) # Undefined /\ getProtocolConfig(c2) # Undefined

\* C14 witness of the other case: setNetworkEnabled has returned false
C14_UnknownChain ==
    /\ netRet.op = "setNetworkEnabled"
    /\ netRet.ret = FALSE
    /\ getNetwork(netRet.chainId) = Undefined

\* C15: each registry class has constructed at most one object, every
\* getInstance() has returned that object to whichever component asked, and
\* so what one component registered is what every other component finds.
C15_SingleInstance ==
    /\ Len(netObjects) <= 1
    /\ Len(tokObjects) <= 1
    /\ \A k \in Components :
          /\ held[k].net \in {0, netInstance}
          /\ held[k].tok \in {0, tokInstance}
    /\ \A k1 \in Components, k2 \in Components :
          /\ (held[k1].net # 0 /\ held[k2].net # 0) =>
                \A c \in Chains : NetworkThrough(k1, c) = NetworkThrough(k2, c)
          /\ (held[k1].tok # 0 /\ held[k2].tok # 0) =>
                \A c \in Chains, sym \in Symbols :
                    TokenThrough(k1, sym, c) = TokenThrough(k2, sym, c)

\* C15 witness: two components hold an instance of each registry, and a
\* network and a token were registered through them
C15_Witness ==
    /\ \A k \in {1, 2} : held[k].net # 0 /\ held[k].tok # 0
    /\ \E c \in Chains : NetworkThrough(2, c) # Undefined
    /\ \E c \in Chains, sym \in Symbols : TokenThrough(1, sym, c) # Undefined

\* what a lookup may answer for a key: nothing, or the payload one
\* registration call for the key was made with, as a whole
WholeToken(r, symbol, chainId) ==
    \/ r = Undefined
    \/ r \in registered.tokens /\ r.chainId = chainId /\ SameSymbol(r.symbol, symbol)
WholeNetwork(r, chainId) ==
    \/ r = Undefined
    \/ r \in registered.networks /\ r.chainId = chainId
WholeProtocol(r, chainId) ==
    \/ r = Undefined
    \/ [chainId |-> chainId, protocolConfig |-> r] \in registered.protocols

\* C16: however the registration, removal and lookup calls of the callers
\* interleave, every lookup of a key, those that have returned and those
\* that could be made now, answers not-found or the whole payload of one
\* registration call made for that key; getProtocolConfig answers the
\* configuration one registerNetwork call for the chain carried.
C16_WholeEntries ==
    /\ \A c \in Chains, sym \in Symbols : WholeToken(getToken(sym, c), sym, c)
    /\ \A c \in Chains : WholeNetwork(getNetwork(c), c)
    /\ \A c \in Chains : WholeProtocol(getProtocolConfig(c), c)
    /\ tokRet.op = "getToken" => WholeToken(tokRet.ret, tokRet.symbol, tokRet.chainId)
    /\ netRet.op = "getNetwork" => WholeNetwork(netRet.ret, netRet.chainId)
    /\ netRet.op = "getProtocolConfig" => WholeProtocol(netRet.ret, netRet.chainId)

\* C16 witness: two payloads were registered under one token key and two
\* under one chain, and a lookup of each key has returned a payload
C16_Witness ==
    /\ tokRet.op = "getToken" /\ tokRet.ret # Undefined
    /\ \E t \in registered.tokens :
          /\ t # tokRet.ret
          /\ t.chainId = tokRet.chainId
          /\ SameSymbol(t.symbol, tokRet.symbol)
    /\ netRet.op = "getNetwork" /\ netRet.ret # Undefined
    /\ \E m \in registered.networks : m # netRet.ret /\ m.chainId = netRet.chainId

\* the portfolio read has returned / what it returned
PortfolioReturned == pf.pc = "done" /\ pf.result.kind = "return"
\* the native entry and the token entries of a returned portfolio, whether
\* the native entry heads the tokens or has a field of its own
NativeEntryOf(r) == IF "nativeToken" \in DOMAIN r THEN r.nativeToken ELSE r.tokens[1]
TokenEntriesOf(r) == IF "nativeToken" \in DOMAIN r THEN r.tokens ELSE Tail(r.tokens)

\* a price lookup goes out for each token: getBalances looks a price up only
\* where a price source is configured, the others always
PriceLookupIssued == pf.impl = GetBalances => pf.config.priceSource # "none"
\* the tokens whose task was answered with a rejected price lookup and
\* nothing else rejected
PriceFailedTokens ==
    { i \in 1..Len(pf.config.contracts) :
        /\ i <= Len(pf.answers)
        /\ PriceLookupIssued
        /\ pf.answers[i] # Pending
        /\ pf.answers[i].balance.ok /\ pf.answers[i].decimals.ok
        /\ pf.answers[i].decimalsAgain.ok
        /\ ~pf.answers[i].price.ok }
\* no read of the portfolio read was rejected but price lookups of tokens
OnlyTokenPricesFailed ==
    /\ pf.nativeAnswer # Pending /\ pf.nativeAnswer.ok
    /\ pf.priceAnswer = Pending \/ pf.priceAnswer.ok
    /\ \A i \in 1..Len(pf.answers) :
          pf.answers[i] = Pending
          \/ (pf.answers[i].balance.ok /\ pf.answers[i].decimals.ok
              /\ pf.answers[i].decimalsAgain.ok)

\* C17: when the native balance read succeeded and only price lookups of
\* configured tokens failed, the portfolio read has not raised, and the
\* portfolio it returns has an entry with price '0' for each such token.
C17_PriceFailureDegrades ==
    (OnlyTokenPricesFailed /\ PriceFailedTokens # {}) =>
        /\ pf.result.kind # "throw"
        /\ PortfolioReturned =>
              \A i \in PriceFailedTokens :
                  \E j \in 1..Len(TokenEntriesOf(pf.result.value)) :
                      /\ TokenEntriesOf(pf.result.value)[j].symbol =
                            pf.config.contracts[i].symbol
                      /\ TokenEntriesOf(pf.result.value)[j].price = Zero

\* C18: a portfolio returned by getBalances or getWalletBalance has the
\* native entry first in its tokens, then exactly one entry for each token of
\* the configured contract set, and no other entry.
C18_NativeThenEveryToken ==
    (PortfolioReturned /\ pf.impl \in {GetBalances, GetWalletBalance}) =>
        LET entries == pf.result.value.tokens
            configured == pf.config.contracts
        IN  /\ Len(entries) = Len(configured) + 1
            /\ entries[1].symbol = pf.config.nativeCurrency.symbol
            /\ \A i \in 1..Len(configured) :
                  \E j \in 2..Len(entries) : entries[j].symbol = configured[i].symbol

\* the sum of balance times price over entries
RECURSIVE SumOfValues(_)
SumOfValues(entries) ==
    IF entries = <<>> THEN Zero
    ELSE Plus(Times(Head(entries).balance, Head(entries).price), SumOfValues(Tail(entries)))

InExecuteSwap == op \in {"executeSwap", "legacyExecuteSwap"}
\* the i-th remote operation of the call is a receipt wait for the call's
\* transaction with confirmation count 2
ReceiptWaitOfTwo(i) ==
    /\ reads[i].fn = "waitForTransactionReceipt"
    /\ reads[i].args.hash = args.txHash
    /\ reads[i].args.confirmations = 2

\* C20 as stated: every finished executeSwap call has issued exactly one
\* receipt wait, with confirmation count 2.
C20_EveryCallWaitsOnce ==
    (InExecuteSwap /\ pc = "done") => (Len(reads) = 1 /\ ReceiptWaitOfTwo(1))

\* C20 amended: an executeSwap call that found its provider and its network
\* issues exactly one receipt wait, with confirmation count 2; a call that
\* found either missing throws without a wait.  The receipt is taken only
\* once the wait has resolved; when the wait is rejected the call is over
\* with the error of the wait and without a receipt, and no further wait is
\* issued.
C20_OneReceiptWait ==
    InExecuteSwap =>
        /\ Len(reads) <= 1
        /\ \A i \in 1..Len(reads) : ReceiptWaitOfTwo(i)
        /\ pc # "done" => (Len(reads) = 1 /\ reads[1].answer = Pending)
        /\ (Len(reads) = 1 /\ reads[1].answer = Pending) =>
              (pc # "done" /\ result = NoResult /\ locals.receipt = Undefined)
        /\ (pc = "done" /\ Len(reads) = 0) =>
              (op = "executeSwap" /\ result.kind = "throw" /\ locals.receipt = Undefined)
        /\ (pc = "done" /\ Len(reads) = 1) =>
              /\ reads[1].answer # Pending
              /\ ~reads[1].answer.ok =>
                    (result = Throw(reads[1].answer.error) /\ locals.receipt = Undefined)
              /\ reads[1].answer.ok => locals.receipt = reads[1].answer

\* C20 witness: the wait of an executeSwap call timed out, the call has
\* thrown the timeout and issued the one wait only
C20_Witness ==
    /\ InExecuteSwap /\ pc = "done"
    /\ Len(reads) = 1 /\ ReceiptWaitOfTwo(1)
    /\ reads[1].answer = WaitFailed
    /\ result = Throw(WaitFailed.error)

\* the quoter / router reads among the remote operations of the call
QuoteReads ==
    { i \in 1..Len(reads) : reads[i].fn \in {"quoteExactInputSingle", "getAmountsOut"} }
\* the amountOut a quoter / router read was answered with
AnsweredAmountOut(i) ==
    IF reads[i].fn = "quoteExactInputSingle"
    THEN reads[i].answer.value[1]
    ELSE reads[i].answer.value[2]

\* C23: between two calls no remote operation is outstanding or kept; a
\* prepareSwapTransaction call never has more than one quote read, and one
\* that returned has exactly one, answered within the call, whose amountOut
\* (and no earlier quote's) gives the minimum output of the transaction (its
\* floor at 99.5%, stated as for C2), also when the last build had the same
\* tokens, amount and chain.
C23_OwnQuote ==
    /\ pc = "idle" => reads = <<>>
    /\ op = "prepareSwapTransaction" =>
          /\ Cardinality(QuoteReads) <= 1
          /\ Returned("prepareSwapTransaction") =>
                /\ Cardinality(QuoteReads) = 1
                /\ \A i \in QuoteReads :
                      /\ i = Len(reads)
                      /\ reads[i].answer # Pending /\ reads[i].answer.ok
                      /\ locals.quote.amountOut = AnsweredAmountOut(i)
                      /\ 200 * (AnsweredAmountOut(i) - MinOutOf(result.value) - 1)
                            < AnsweredAmountOut(i)
                      /\ AnsweredAmountOut(i)
                            <= 200 * (AnsweredAmountOut(i) - MinOutOf(result.value))

\* C23 witness: a build of the tokens, amount and chain of the last build has
\* returned on a quote other than the one the last build got
C23_Witness ==
    /\ Returned("prepareSwapTransaction")
    /\ "amountOut" \in DOMAIN served
    /\ served.inputToken = args.inputToken /\ served.outputToken = args.outputToken
    /\ served.amount = args.amount.text /\ served.chainId = args.chainId
    /\ served.amountOut # locals.quote.amountOut
    /\ Cardinality(QuoteReads) = 1

\* the remote decimals reads of the call for its input token
InputDecimalsReads ==
    { i \in 1..Len(reads) :
        reads[i].fn = "decimals" /\ reads[i].address = args.inputToken }

\* C24: a prepareSwapTransaction call whose input token is the native
\* currency of the chain has issued no remote decimals read for the input
\* token; a call whose input token is not native, once it has its amountIn,
\* has converted the amount once, by the decimals read for the input token.
C24_NativeSkipsDecimals ==
    (op = "prepareSwapTransaction" /\ locals.nativeToken # Undefined) =>
        /\ locals.isNativeToken => InputDecimalsReads = {}
        /\ (~locals.isNativeToken /\ locals.amountIn # -1) =>
              /\ InputDecimalsReads # {}
              /\ \A i \in InputDecimalsReads :
                    reads[i].answer # Pending /\ reads[i].answer.ok
                    /\ (i = Len(reads) \/ reads[i + 1].fn # "decimals") =>
                          locals.amountIn = ParseUnits(args.amount, reads[i].answer.value)

\* C25: no two entries of a chain that have different symbols hold the same
\* contract address.
C25_AddressOncePerChain ==
    \A c \in Chains :
        \A i, j \in 1..Len(tokens[c].map) :
            tokens[c].map[i].key # tokens[c].map[j].key =>
                tokens[c].map[i].value.address # tokens[c].map[j].value.address

\* C27: the last operation being getProvider(chainId), it returned a provider
\* only if the network of chainId is registered and enabled (no operation
\* has touched the networks since), and it failed if the network is unknown
\* or disabled.
C27_ProviderOnlyWhenEnabled ==
    netRet.op = "getProvider" =>
        LET network == getNetwork(netRet.chainId)
            usable == network # Undefined /\ network.enabled
        IN  /\ netRet.ret.ok => usable
            /\ ~usable => ~netRet.ret.ok

\* a token symbol occurs in the text at position p, letter case ignored
SymbolAt(text, p) == \E w \in SymbolWords : StandsAt(text, p, w)
\* a digit, then blanks or none, then a token symbol at position p
AmountBefore(text, p) ==
    \E d \in 1..Len(text) :
        d < p /\ IsDigit(text[d]) /\ \A k \in (d + 1)..(p - 1) : text[k] = " "
\* a swap keyword occurs in the text, letter case ignored
KeywordIn(text) ==
    \E i \in 1..Len(text), keyword \in swapKeywords : StandsAt(text, i, keyword)

\* C22 as stated: validate returns true exactly for a discord message whose
\* text has a swap keyword, a token symbol, and an amount followed by a token
\* symbol; so false off discord and false without a token symbol.
C22_ValidateIff ==
    val.called =>
        LET text == val.message.content.text
        IN  /\ val.ret <=>
                  /\ val.message.content.source = "discord"
                  /\ KeywordIn(text)
                  /\ \E p \in 1..Len(text) : SymbolAt(text, p)
                  /\ \E p \in 1..Len(text) : SymbolAt(text, p) /\ AmountBefore(text, p)
            /\ val.message.content.source # "discord" => ~val.ret
            /\ ~(\E p \in 1..Len(text) : SymbolAt(text, p)) => ~val.ret

\* C22 amended: validate returns true exactly for a discord message whose
\* text has a swap keyword, a token symbol that stands as a word of its own
\* (no letter, digit or underscore next to it), and an amount followed by the
\* letters of a token symbol; so false off discord and false without a
\* token symbol.
C22_ValidateWholeWord ==
    val.called =>
        LET text == val.message.content.text
            Alone(p, w) ==
                /\ StandsAt(text, p, w)
                /\ p = 1 \/ ~IsWordChar(text[p - 1])
                /\ p + Len(w) > Len(text) \/ ~IsWordChar(text[p + Len(w)])
        IN  /\ val.ret <=>
                  /\ val.message.content.source = "discord"
                  /\ KeywordIn(text)
                  /\ \E p \in 1..Len(text), w \in SymbolWords : Alone(p, w)
                  /\ \E p \in 1..Len(text) : SymbolAt(text, p) /\ AmountBefore(text, p)
            /\ val.message.content.source # "discord" => ~val.ret
            /\ ~(\E p \in 1..Len(text) : SymbolAt(text, p)) => ~val.ret

\* C22 witness: validate returned true on a discord message whose amount has
\* a fraction and is followed by a symbol in capitals
C22_Witness ==
    /\ val.called /\ val.ret
    /\ val.message.content.source = "discord"
    /\ val.message.content.text =
          <<"T", "r", "a", "d", "e", " ", "1", ".", "5", " ", "E", "T", "H">>

\* the conditions of a prepared swap hold for the params the handler has:
\* params were extracted, their network is registered, both tokens are
\* registered on it, the amount parses, the network has a protocol
\* configuration
SwapConditions ==
    /\ act.params # Undefined
    /\ \E c \in Chains :
          /\ networks[c] # Undefined
          /\ LowerName(NetworkName(networks[c])) = LowerName(act.params.network)
          /\ tokens[c].has
          /\ MapHas(tokens[c].map, ToUpper(act.params.fromToken))
          /\ MapHas(tokens[c].map, ToUpper(act.params.toToken))
          /\ protocols[c] # Undefined
    /\ act.params.amount.valid

\* C21: a handler call none of whose callbacks failed has not thrown: it has
\* returned a Content and has invoked the callback exactly once, with that
\* Content.  The Content has an action, SWAP_TOKEN_QUOTE, only under the
\* conditions of a prepared swap; where they do not hold its text begins
\* with 'Error' and it has no action.
C21_HandlerAnswers ==
    (act.pc = "done" /\ ~act.callbackFailed) =>
        /\ act.result.kind = "return"
        /\ act.callbacks = <<act.result.value>>
        /\ "action" \in DOMAIN act.result.value =>
              (act.result.value.action = "SWAP_TOKEN_QUOTE" /\ SwapConditions)
        /\ ~SwapConditions =>
              /\ act.result.value.text[1] = "Error: "
              /\ "action" \notin DOMAIN act.result.value

\* C21 witness: the handler has returned a prepared swap, after one callback
C21_Witness ==
    /\ act.pc = "done" /\ ~act.callbackFailed
    /\ act.result.kind = "return"
    /\ "action" \in DOMAIN act.result.value
    /\ Len(act.callbacks) = 1

\* the handler has answered an unsupported network by an error Content
C21_UnsupportedNetwork ==
    /\ act.pc = "done" /\ ~act.callbackFailed
    /\ act.params # Undefined /\ act.params.network = "unknown-network"
    /\ act.result.value.text[1] = "Error: "

\* the requests of the fan-out that are in flight
PendingRequests ==
    { ir \in (1..Len(fan.branches)) \X (1..4) :
        /\ ir[2] <= Len(fan.branches[ir[1]].requests)
        /\ fan.branches[ir[1]].requests[ir[2]] = "pending" }
\* the aggregate call has returned its result, or has failed
AggregateReturned == fan.pc = "done" /\ fan.result = "return"
AggregateFailed == fan.pc = "done" /\ fan.result = "throw"
BranchFailed == \E i \in 1..Len(fan.branches) : fan.branches[i].stage = "rejected"
\* a request in flight is still there in the next state, in flight or
\* answered: nothing takes it back
RequestsKept ==
    \A ir \in PendingRequests :
        /\ ir[1] <= Len(fan'.branches)
        /\ ir[2] <= Len(fan'.branches[ir[1]].requests)
        /\ fan'.branches[ir[1]].requests[ir[2]] \in {"pending", Fulfilled, RejectedRequest}

\* C26: in a fan-out of parallel reads (the four fetches of getTokenDetails,
\* the per-token reads of getTokenBalances) the aggregate is returned only
\* when every branch has completed; as soon as a branch has failed the
\* aggregate call has failed; the requests in flight are never taken back,
\* and after a failure every one of them is answered in the end.
C26_FanOut ==
    /\ [](AggregateReturned =>
            \A i \in 1..Len(fan.branches) : fan.branches[i].stage = "fulfilled")
    /\ [](BranchFailed => AggregateFailed)
    /\ [][RequestsKept]_vars
    /\ (AggregateFailed ~> PendingRequests = {})

\* getTokenDetails has failed and its siblings were answered afterwards
C26_Witness ==
    /\ fan.call = "getTokenDetails"
    /\ AggregateFailed
    /\ fan.late > 0
    /\ PendingRequests = {}
    /\ \E i \in 1..Len(fan.branches) : fan.branches[i].stage = "fulfilled"

\* a switchChain call has failed
SwitchChainFailed == wal.sw.pc = "done" /\ wal.sw.result.kind = "throw"

\* C28: once connect() has succeeded, getWalletClient() succeeds in every
\* later state, also after successful switchChain calls to other supported
\* chains; and a switchChain call that has failed (wallet not connected,
\* unsupported chain, the wallet rejecting the switch) has left the current
\* chain as it was.
C28_ConnectedWalletStays ==
    /\ wal.connected => getWalletClient(wal).kind = "return"
    /\ SwitchChainFailed => wal.currentChainId = wal.sw.before

\* the orders of the persisted order book
PersistedOrders == { book.file[i] : i \in 1..Len(book.file) }
\* the takeOrder call in progress gets its transaction sent, or fails to
TakeOrderSucceeds ==
    /\ book.take.pc = "sendTransaction"
    /\ book'.take.pc = "done"
    /\ book'.take.result = Return("Order executed successfully")
TakeOrderFails ==
    /\ book.take.pc = "sendTransaction"
    /\ book'.take.pc = "done"
    /\ book'.take.result = Return("Failed to execute order")

\* C29: under any interleaving of addOrder, removeOrder and takeOrder calls,
\* an order whose addOrder has completed is in the persisted order book until
\* a matching removeOrder or a successful takeOrder that selected it; and
\* takeOrder removes exactly the one order it executed, when its transaction
\* was sent, and leaves the order book as it is when the send fails.
C29_OrdersKept ==
    /\ [](book.due \subseteq PersistedOrders)
    /\ [][TakeOrderSucceeds =>
            book'.file = WithoutOrder(book.file, book.take.userOrder)]_vars
    /\ [][TakeOrderFails => book'.file = book.file]_vars

\* the transfer handler is over
TransferDone == xfer.pc = "done"
\* a transaction was submitted and its receipt has status 'success'
TransferSucceeded == xfer.submitted > 0 /\ xfer.receipt = "success"
\* the callback, when given, was handed an error
ErrorReported ==
    xfer.hasCallback =>
        \E i \in 1..Len(xfer.callbacks) : "error" \in DOMAIN xfer.callbacks[i]
\* the handler has returned, and true only after a successful transfer
ReturnsTrueOnlyOnSuccess ==
    TransferDone /\ xfer.result = Return(TRUE) => TransferSucceeded
\* without a successful transfer false is returned and the error reported
ReturnsFalseOtherwise ==
    TransferDone /\ ~TransferSucceeded => xfer.result = Return(FALSE) /\ ErrorReported
\* invalid content submits nothing
InvalidContentSubmitsNothing ==
    xfer.content # Undefined /\ ~isTransferContent(xfer.content) => xfer.submitted = 0
\* the branch taken is the native one exactly for the native address
NativeExactly ==
    xfer.path # "none" =>
        (xfer.path = "native" <=> IsNativeTransfer(xfer.content))

\* C30: the transfer handler returns true only if a transaction was
\* submitted and its receipt has status 'success'; in every other case it
\* returns false, reports the error through the callback when one is given,
\* and never throws; with invalid content no transaction is submitted; the
\* native transfer is chosen exactly when the token address equals the
\* native-currency address, letter case ignored.
C30_TransferAnswers ==
    /\ ReturnsTrueOnlyOnSuccess
    /\ ReturnsFalseOtherwise
    /\ TransferDone => xfer.result.kind = "return"
    /\ InvalidContentSubmitsNothing
    /\ NativeExactly

====
